---- MODULE Spec2Model ----
(***************************************************************************)
(* Per-line audio assignment of the script editor: the project store       *)
(* (projectSlice, two revisions), the character store, the Dexie tables    *)
(* db.projects / db.audioBlobs, and the timeline operations split, shift   *)
(* down, shift up and merge that ripple audio references through a shift   *)
(* chain.                                                                  *)
(***************************************************************************)
EXTENDS Integers, Sequences, FiniteSets, TLC

(***************************************************************************)
(* Bounds of the model.                                                    *)
(***************************************************************************)
\* number of store operations issued in one behaviour
MaxOps == 1
\* largest value of the millisecond clock Date.now()
MaxNow == 2
\* number of editor edits (character reassignment) in one behaviour
MaxEdits == 1

(***************************************************************************)
(* Values.                                                                 *)
(***************************************************************************)
\* audioBlobId: undefined
NoAudio == <<"none", 0, 0>>
\* characterId: undefined
NoChar == "undefined"
\* the name '[静音]' of the silent marker role
SilentName == "[silent]"
\* the two revisions of store/slices/projectSlice.ts
Slices == {"part_002", "part_003"}
\* ShiftMode
ShiftModes == {"chapter", "character", "cv"}

InitialBlobId(n) == <<"audio", 0, n>>

(***************************************************************************)
(* Array helpers.                                                          *)
(***************************************************************************)
Indices(seq) == [i \in 1..Len(seq) |-> i]

SetMin(S) == CHOOSE x \in S : \A y \in S : x <= y

\* Array.prototype.findIndex(l => l.id === id), 1-based; 0 stands for -1
IndexOfId(seq, id) ==
    LET I == {i \in 1..Len(seq) : seq[i].id = id}
    IN  IF I = {} THEN 0 ELSE SetMin(I)

HasId(seq, id) == IndexOfId(seq, id) # 0

\* a sequence of array writes arr[index] = value, applied in order
RECURSIVE ApplyWrites(_, _)
ApplyWrites(arr, writes) ==
    IF writes = <<>> THEN arr
    ELSE ApplyWrites([arr EXCEPT ![Head(writes)[1]] = Head(writes)[2]],
                     Tail(writes))

SeqToSet(seq) == {seq[i] : i \in 1..Len(seq)}

(***************************************************************************)
(* Characters.                                                             *)
(***************************************************************************)
\* the result undefined of characters.find(...)
NoCharacter == [id |-> NoChar, name |-> "", cvName |-> "", projectId |-> ""]

\* characters.find(c => c.id === characterId)
FindCharacter(chars, characterId) ==
    LET I == {i \in 1..Len(chars) : chars[i].id = characterId}
    IN  IF I = {} THEN NoCharacter ELSE chars[SetMin(I)]

\* characters.find(c => c.name === '[静音]')?.id
silentCharId(chars) ==
    LET I == {i \in 1..Len(chars) : chars[i].name = SilentName}
    IN  IF I = {} THEN NoChar ELSE chars[SetMin(I)].id

(***************************************************************************)
(* The shift chain: the indices of the lines at or after start that take   *)
(* part in a ripple, for the anchor character anchorId.                    *)
(***************************************************************************)
calculateShiftChain(lines, start, mode, chars, anchorId) ==
    LET originalCharacter == FindCharacter(chars, anchorId)
        silent == silentCharId(chars)
        eligible(i) ==
            /\ i >= start
            /\ lines[i].characterId # silent
            /\ CASE mode = "chapter" -> TRUE
                 [] mode = "character" ->
                        /\ originalCharacter.id # NoChar
                        /\ lines[i].characterId = originalCharacter.id
                 [] mode = "cv" ->
                        /\ originalCharacter.id # NoChar
                        /\ originalCharacter.cvName # ""
                        /\ FindCharacter(chars, lines[i].characterId).id # NoChar
                        /\ FindCharacter(chars, lines[i].characterId).cvName
                              = originalCharacter.cvName
                 [] OTHER -> FALSE
    IN  SelectSeq(Indices(lines), eligible)

\* shiftAudioUp of part_002: the eligible lines of the whole chapter, and the
\* chain is their suffix from the start line; <<>> when the start line itself
\* is not eligible (startIndexInChain === -1)
eligibleLinesFrom(lines, startIndex, mode, chars) ==
    LET all == calculateShiftChain(lines, 1, mode, chars,
                                   lines[startIndex].characterId)
        I == {k \in 1..Len(all) : all[k] = startIndex}
    IN  IF I = {} THEN <<>> ELSE SubSeq(all, SetMin(I), Len(all))


(***************************************************************************)
(* The line arrays and asset deltas computed by the timeline operations.   *)
(* A plan is the new scriptLines, the list blobsToDelete and the list      *)
(* newBlobs of AudioBlob records {id, lineId, data}; data is the encoded  *)
(* recording.                                                              *)
(***************************************************************************)
WithAudio(line, audioBlobId) == [line EXCEPT !.audioBlobId = audioBlobId]

\* shiftAudioDown with the loop bound off by one, i > 1 for i > 0: the second
\* chain member keeps its own audio
shiftDownPlanLoopStopsEarly(lines, chain) ==
    LET n == Len(chain)
        lastLineInChain == lines[chain[n]]
        blobsToDelete ==
            IF lastLineInChain.audioBlobId # NoAudio
            THEN <<lastLineInChain.audioBlobId>> ELSE <<>>
        loopWrites == [m \in 1..(n - 2) |->
            LET i == n + 1 - m
            IN  <<chain[i], WithAudio(lines[chain[i]],
                                      lines[chain[i - 1]].audioBlobId)>>]
        firstWrite == <<chain[1], WithAudio(lines[chain[1]], NoAudio)>>
    IN  [scriptLines |-> ApplyWrites(lines, loopWrites \o <<firstWrite>>),
         blobsToDelete |-> blobsToDelete,
         newBlobs |-> <<>>]

\* shiftAudioDown, part_003: chain is not empty
shiftDownPlan(lines, chain) ==
    LET n == Len(chain)
        lastLineInChain == lines[chain[n]]
        blobsToDelete ==
            IF lastLineInChain.audioBlobId # NoAudio
            THEN <<lastLineInChain.audioBlobId>> ELSE <<>>
        \* for (let i = shiftChain.length - 1; i > 0; i--)
        loopWrites == [m \in 1..(n - 1) |->
            LET i == n + 1 - m
            IN  <<chain[i], WithAudio(lines[chain[i]],
                                      lines[chain[i - 1]].audioBlobId)>>]
        firstWrite == <<chain[1], WithAudio(lines[chain[1]], NoAudio)>>
    IN  [scriptLines |-> ApplyWrites(lines, loopWrites \o <<firstWrite>>),
         blobsToDelete |-> blobsToDelete,
         newBlobs |-> <<>>]

\* shiftAudioDown, part_002, chain longer than 1: the forEach that rewrites
\* targetChapter.scriptLines in place, carrying audioToShiftDown
RECURSIVE rippleDownInPlace(_, _, _)
rippleDownInPlace(lines, chainIndices, audioToShiftDown) ==
    IF chainIndices = <<>>
    THEN [scriptLines |-> lines,
          blobsToDelete |-> IF audioToShiftDown # NoAudio
                            THEN <<audioToShiftDown>> ELSE <<>>,
          newBlobs |-> <<>>]
    ELSE LET lineIndex == Head(chainIndices)
             tempAudioId == lines[lineIndex].audioBlobId
         IN  rippleDownInPlace(
                 [lines EXCEPT ![lineIndex] = WithAudio(@, audioToShiftDown)],
                 Tail(chainIndices), tempAudioId)

\* shiftAudioDown, part_002, chain of at most one member: the start line is
\* cleared, whatever the chain holds
clearStartLinePlan(lines, startLineIndex) ==
    [scriptLines |-> [lines EXCEPT ![startLineIndex] = WithAudio(@, NoAudio)],
     blobsToDelete |-> IF lines[startLineIndex].audioBlobId # NoAudio
                       THEN <<lines[startLineIndex].audioBlobId>> ELSE <<>>,
     newBlobs |-> <<>>]

\* shiftAudioUp deleting the asset of the last chain member instead of the
\* one the first member held
shiftUpPlanDeletesLast(lines, chain) ==
    LET n == Len(chain)
        blobsToDelete ==
            IF lines[chain[n]].audioBlobId # NoAudio
            THEN <<lines[chain[n]].audioBlobId>> ELSE <<>>
        loopWrites == [i \in 1..(n - 1) |->
            <<chain[i], WithAudio(lines[chain[i]],
                                  lines[chain[i + 1]].audioBlobId)>>]
        lastWrite == <<chain[n], WithAudio(lines[chain[n]], NoAudio)>>
    IN  [scriptLines |-> ApplyWrites(lines, loopWrites \o <<lastWrite>>),
         blobsToDelete |-> blobsToDelete,
         newBlobs |-> <<>>]

\* shiftAudioUp, part_003: chain has at least two members
shiftUpPlan(lines, chain) ==
    LET n == Len(chain)
        blobsToDelete ==
            IF lines[chain[1]].audioBlobId # NoAudio
            THEN <<lines[chain[1]].audioBlobId>> ELSE <<>>
        loopWrites == [i \in 1..(n - 1) |->
            <<chain[i], WithAudio(lines[chain[i]],
                                  lines[chain[i + 1]].audioBlobId)>>]
        lastWrite == <<chain[n], WithAudio(lines[chain[n]], NoAudio)>>
    IN  [scriptLines |-> ApplyWrites(lines, loopWrites \o <<lastWrite>>),
         blobsToDelete |-> blobsToDelete,
         newBlobs |-> <<>>]

\* shiftAudioUp, part_002: the Map updates keyed by line id, applied by
\* scriptLines.map; a later updates.set of the same id wins
shiftUpPlanById(lines, chain) ==
    LET n == Len(chain)
        updates == [i \in 1..(n - 1) |->
                       <<lines[chain[i]].id, lines[chain[i + 1]].audioBlobId>>]
                   \o <<<<lines[chain[n]].id, NoAudio>>>>
        has(id) == \E k \in 1..Len(updates) : updates[k][1] = id
        get(id) == LET K == {k \in 1..Len(updates) : updates[k][1] = id}
                   IN  updates[CHOOSE k \in K : \A j \in K : j <= k][2]
    IN  [scriptLines |-> [j \in 1..Len(lines) |->
                             IF has(lines[j].id)
                             THEN WithAudio(lines[j], get(lines[j].id))
                             ELSE lines[j]],
         blobsToDelete |-> IF lines[chain[1]].audioBlobId # NoAudio
                           THEN <<lines[chain[1]].audioBlobId>> ELSE <<>>,
         newBlobs |-> <<>>]

\* the ripple of splitAndShiftAudio: previousAudioId carried down the chain
\* from its second member on; returns the writes and the id that fell off
RECURSIVE splitRipple(_, _, _, _)
splitRipple(lines, chain, i, previousAudioId) ==
    IF i > Len(chain)
    THEN [writes |-> <<>>, previousAudioId |-> previousAudioId]
    ELSE LET rest == splitRipple(lines, chain, i + 1,
                                 lines[chain[i]].audioBlobId)
         IN  [writes |-> <<<<chain[i], WithAudio(lines[chain[i]],
                                                 previousAudioId)>>>>
                         \o rest.writes,
              previousAudioId |-> rest.previousAudioId]

\* splitAndShiftAudio that keeps the asset that fell off the end of the chain
splitPlanKeepsDropped(lines, lineIndex, chain, part1BlobId, part2BlobId, data1, data2) ==
    LET line == lines[lineIndex]
        headWrite == <<lineIndex, WithAudio(line, part1BlobId)>>
        firstInChain == lines[chain[1]]
        ripple == splitRipple(lines, chain, 2, firstInChain.audioBlobId)
    IN  IF Len(chain) = 0
        THEN [scriptLines |-> ApplyWrites(lines, <<headWrite>>),
              blobsToDelete |-> <<line.audioBlobId>>,
              newBlobs |-> <<[id |-> part1BlobId, lineId |-> line.id,
                              data |-> data1]>>]
        ELSE [scriptLines |->
                  ApplyWrites(lines,
                      <<headWrite,
                        <<chain[1], WithAudio(firstInChain, part2BlobId)>>>>
                      \o ripple.writes),
              blobsToDelete |-> <<line.audioBlobId>>,
              newBlobs |-> <<[id |-> part1BlobId, lineId |-> line.id,
                              data |-> data1],
                             [id |-> part2BlobId, lineId |-> firstInChain.id,
                              data |-> data2]>>]

\* splitAndShiftAudio that stores the second part even when no line takes it
splitPlanStoresTail(lines, lineIndex, chain, part1BlobId, part2BlobId, data1, data2) ==
    LET line == lines[lineIndex]
        headWrite == <<lineIndex, WithAudio(line, part1BlobId)>>
        firstInChain == lines[chain[1]]
        ripple == splitRipple(lines, chain, 2, firstInChain.audioBlobId)
    IN  IF Len(chain) = 0
        THEN [scriptLines |-> ApplyWrites(lines, <<headWrite>>),
              blobsToDelete |-> <<line.audioBlobId>>,
              newBlobs |-> <<[id |-> part1BlobId, lineId |-> line.id,
                              data |-> data1],
                             [id |-> part2BlobId, lineId |-> line.id,
                              data |-> data2]>>]
        ELSE [scriptLines |->
                  ApplyWrites(lines,
                      <<headWrite,
                        <<chain[1], WithAudio(firstInChain, part2BlobId)>>>>
                      \o ripple.writes),
              blobsToDelete |->
                  <<line.audioBlobId>> \o
                  (IF ripple.previousAudioId # NoAudio
                   THEN <<ripple.previousAudioId>> ELSE <<>>),
              newBlobs |-> <<[id |-> part1BlobId, lineId |-> line.id,
                              data |-> data1],
                             [id |-> part2BlobId, lineId |-> firstInChain.id,
                              data |-> data2]>>]

\* splitAndShiftAudio: the line at lineIndex holds the asset that was cut
\* into part1 (data1 samples) and part2 (data2 samples)
splitPlan(lines, lineIndex, chain, part1BlobId, part2BlobId, data1, data2) ==
    LET line == lines[lineIndex]
        headWrite == <<lineIndex, WithAudio(line, part1BlobId)>>
        firstInChain == lines[chain[1]]
        ripple == splitRipple(lines, chain, 2, firstInChain.audioBlobId)
    IN  IF Len(chain) = 0
        THEN [scriptLines |-> ApplyWrites(lines, <<headWrite>>),
              blobsToDelete |-> <<line.audioBlobId>>,
              newBlobs |-> <<[id |-> part1BlobId, lineId |-> line.id,
                              data |-> data1]>>]
        ELSE [scriptLines |->
                  ApplyWrites(lines,
                      <<headWrite,
                        <<chain[1], WithAudio(firstInChain, part2BlobId)>>>>
                      \o ripple.writes),
              blobsToDelete |->
                  <<line.audioBlobId>> \o
                  (IF ripple.previousAudioId # NoAudio
                   THEN <<ripple.previousAudioId>> ELSE <<>>),
              newBlobs |-> <<[id |-> part1BlobId, lineId |-> line.id,
                              data |-> data1],
                             [id |-> part2BlobId, lineId |-> firstInChain.id,
                              data |-> data2]>>]

\* a search for the line to merge with that looks at the adjacent line only
nextSameCharacterAdjacent(lines, currentLineIndex) ==
    IF /\ currentLineIndex < Len(lines)
       /\ lines[currentLineIndex + 1].characterId
             = lines[currentLineIndex].characterId
    THEN currentLineIndex + 1 ELSE 0

\* mergeWithNextAndShift, part_003: the first line after currentLineIndex
\* with the same characterId; 0 when there is none
nextSameCharacterIndex(lines, currentLineIndex) ==
    LET I == {i \in (currentLineIndex + 1)..Len(lines) :
                 lines[i].characterId = lines[currentLineIndex].characterId}
    IN  IF I = {} THEN 0 ELSE SetMin(I)

\* mergeWithNextAndShift that leaves the merged-from line in the chapter
mergePlanKeepsNextLine(lines, currentLineIndex, nextLineIndex, chain, mergedBlobId, data) ==
    LET currentLine == lines[currentLineIndex]
        nextLine == lines[nextLineIndex]
        n == Len(chain)
        mergedWrite == <<currentLineIndex,
                         [currentLine EXCEPT
                             !.text = currentLine.text \o <<"\n">>
                                         \o nextLine.text,
                             !.audioBlobId = mergedBlobId]>>
        afterMerged == ApplyWrites(lines, <<mergedWrite>>)
        lineToStartShiftFrom == afterMerged[nextLineIndex]
        vacatedWrite == <<nextLineIndex,
                          WithAudio(lineToStartShiftFrom,
                                    IF n > 0 THEN lines[chain[1]].audioBlobId
                                    ELSE NoAudio)>>
        loopWrites == [i \in 1..(n - 1) |->
            <<chain[i], WithAudio(lines[chain[i]],
                                  lines[chain[i + 1]].audioBlobId)>>]
        lastWrites == IF n > 0
                      THEN <<<<chain[n], WithAudio(lines[chain[n]], NoAudio)>>>>
                      ELSE <<>>
        newScriptLines == ApplyWrites(lines,
            <<mergedWrite, vacatedWrite>> \o loopWrites \o lastWrites)
    IN  [scriptLines |-> newScriptLines,
         blobsToDelete |->
             <<currentLine.audioBlobId, nextLine.audioBlobId>> \o
             (IF n > 0 /\ lines[chain[n]].audioBlobId # NoAudio
              THEN <<lines[chain[n]].audioBlobId>> ELSE <<>>),
         newBlobs |-> <<[id |-> mergedBlobId, lineId |-> currentLine.id,
                         data |-> data]>>]

\* mergeWithNextAndShift, part_003: chain is computed from nextLineIndex + 1
mergePlan(lines, currentLineIndex, nextLineIndex, chain, mergedBlobId, data) ==
    LET currentLine == lines[currentLineIndex]
        nextLine == lines[nextLineIndex]
        n == Len(chain)
        mergedWrite == <<currentLineIndex,
                         [currentLine EXCEPT
                             !.text = currentLine.text \o <<"\n">>
                                         \o nextLine.text,
                             !.audioBlobId = mergedBlobId]>>
        afterMerged == ApplyWrites(lines, <<mergedWrite>>)
        lineToStartShiftFrom == afterMerged[nextLineIndex]
        vacatedWrite == <<nextLineIndex,
                          WithAudio(lineToStartShiftFrom,
                                    IF n > 0 THEN lines[chain[1]].audioBlobId
                                    ELSE NoAudio)>>
        loopWrites == [i \in 1..(n - 1) |->
            <<chain[i], WithAudio(lines[chain[i]],
                                  lines[chain[i + 1]].audioBlobId)>>]
        lastWrites == IF n > 0
                      THEN <<<<chain[n], WithAudio(lines[chain[n]], NoAudio)>>>>
                      ELSE <<>>
        newScriptLines == ApplyWrites(lines,
            <<mergedWrite, vacatedWrite>> \o loopWrites \o lastWrites)
        keep(l) == l.id # nextLine.id
    IN  [scriptLines |-> SelectSeq(newScriptLines, keep),
         blobsToDelete |->
             <<currentLine.audioBlobId, nextLine.audioBlobId>> \o
             (IF n > 0 /\ lines[chain[n]].audioBlobId # NoAudio
              THEN <<lines[chain[n]].audioBlobId>> ELSE <<>>),
         newBlobs |-> <<[id |-> mergedBlobId, lineId |-> currentLine.id,
                         data |-> data]>>]

\* mergeAudioUp, part_002: the line before currentLineIndex takes the merged
\* asset and the eligible lines from currentLineIndex on are shifted up by
\* the Map updates keyed by line id
mergeUpPlan(lines, currentLineIndex, chain, mergedBlobId, data) ==
    LET currentLine == lines[currentLineIndex]
        previousLine == lines[currentLineIndex - 1]
        n == Len(chain)
        updates == [i \in 1..(n - 1) |->
                       <<lines[chain[i]].id, lines[chain[i + 1]].audioBlobId>>]
                   \o (IF n > 0 THEN <<<<lines[chain[n]].id, NoAudio>>>>
                       ELSE <<>>)
        has(id) == \E k \in 1..Len(updates) : updates[k][1] = id
        get(id) == LET K == {k \in 1..Len(updates) : updates[k][1] = id}
                   IN  updates[CHOOSE k \in K : \A j \in K : j <= k][2]
    IN  [scriptLines |-> [j \in 1..Len(lines) |->
                             IF lines[j].id = previousLine.id
                             THEN WithAudio(lines[j], mergedBlobId)
                             ELSE IF has(lines[j].id)
                             THEN WithAudio(lines[j], get(lines[j].id))
                             ELSE lines[j]],
         blobsToDelete |->
             <<previousLine.audioBlobId, currentLine.audioBlobId>> \o
             (IF n > 0 /\ lines[chain[n]].audioBlobId # NoAudio
              THEN <<lines[chain[n]].audioBlobId>> ELSE <<>>),
         newBlobs |-> <<[id |-> mergedBlobId, lineId |-> previousLine.id,
                         data |-> data]>>]


(***************************************************************************)
(* Audio.  The data of an AudioBlob is an encoded recording: its sample    *)
(* rate, channel count, length in samples and the samples of each channel. *)
(* An AudioBuffer is [sampleRate, channels], channels being one sample     *)
(* sequence per channel.  Times are counted in units of 0.01 s and sample  *)
(* rates in samples per unit.                                              *)
(***************************************************************************)
\* 0.01 s, the margin of the end-of-audio test
EndMargin == 1

Payload(sampleRate, channels) ==
    [sampleRate |-> sampleRate, numberOfChannels |-> Len(channels),
     length |-> Len(channels[1]), channels |-> channels]

\* the samples of a recording that was uploaded: sample i of channel c of
\* the recording numbered take is named 100 * take + 10 * c + i
Recorded(take, numberOfChannels, length) ==
    [c \in 1..numberOfChannels |->
        [i \in 1..length |-> 100 * take + 10 * c + i]]

\* audioContext.decodeAudioData
decodeAudioData(data) ==
    [sampleRate |-> data.sampleRate, channels |-> data.channels]

\* AudioBuffer.length
BufferLength(buffer) == Len(buffer.channels[1])

\* lib/audioUtils bufferToWav: the encoded recording keeps the sample rate,
\* the channels and the samples of the buffer
bufferToWav(buffer) == Payload(buffer.sampleRate, buffer.channels)

\* channelData.subarray(begin, end), begin and end counted from 0 and clamped
\* to the array
subarray(channelData, begin, end) ==
    LET n == Len(channelData)
        b == IF begin > n THEN n ELSE begin
        e == IF end > n THEN n ELSE end
    IN  IF e <= b THEN <<>> ELSE SubSeq(channelData, b + 1, e)

\* the two buffers of a cut at splitSample: createBuffer and copyToChannel
cutBuffer(originalBuffer, splitSample) ==
    [part1 |-> [sampleRate |-> originalBuffer.sampleRate,
                channels |-> [c \in 1..Len(originalBuffer.channels) |->
                    subarray(originalBuffer.channels[c], 0, splitSample)]],
     part2 |-> [sampleRate |-> originalBuffer.sampleRate,
                channels |-> [c \in 1..Len(originalBuffer.channels) |->
                    subarray(originalBuffer.channels[c], splitSample,
                             BufferLength(originalBuffer))]]]

\* the cut without the end-of-audio test
splitBuffersAnywhere(originalBuffer, splitSample) ==
    [ok |-> TRUE,
     part1 |-> cutBuffer(originalBuffer, splitSample).part1,
     part2 |-> cutBuffer(originalBuffer, splitSample).part2]

\* part_002: splitSample = floor(splitTime * sampleRate); no split when
\* splitTime >= duration - 0.01
splitBuffers(originalBuffer, splitSample) ==
    [ok |-> splitSample < BufferLength(originalBuffer)
                             - EndMargin * originalBuffer.sampleRate,
     part1 |-> cutBuffer(originalBuffer, splitSample).part1,
     part2 |-> cutBuffer(originalBuffer, splitSample).part2]

\* lib/audioProcessing splitAudio, as the specification describes it: the
\* recording is decoded and cut at 0 < splitSample < length, an error
\* otherwise
splitAudio(data, splitSample) ==
    LET buffer == decodeAudioData(data)
    IN  [ok |-> 0 < splitSample /\ splitSample < BufferLength(buffer),
         part1 |-> cutBuffer(buffer, splitSample).part1,
         part2 |-> cutBuffer(buffer, splitSample).part2]

\* the format test that compares the sample rates only
formatsDifferRateOnly(buffer1, buffer2) ==
    buffer1.sampleRate # buffer2.sampleRate

\* buffer1.sampleRate !== buffer2.sampleRate ||
\* buffer1.numberOfChannels !== buffer2.numberOfChannels
formatsDiffer(buffer1, buffer2) ==
    \/ buffer1.sampleRate # buffer2.sampleRate
    \/ Len(buffer1.channels) # Len(buffer2.channels)

\* the merged buffer with the second recording first
mergeBuffersSwapped(buffer1, buffer2) ==
    [sampleRate |-> buffer1.sampleRate,
     channels |-> [c \in 1..Len(buffer1.channels) |->
                      buffer2.channels[c] \o buffer1.channels[c]]]

\* the merged buffer: createBuffer(channels, buffer1.length + buffer2.length)
\* filled by set(buffer1 data, 0) and set(buffer2 data, buffer1.length)
mergeBuffers(buffer1, buffer2) ==
    [sampleRate |-> buffer1.sampleRate,
     channels |-> [c \in 1..Len(buffer1.channels) |->
                      buffer1.channels[c] \o buffer2.channels[c]]]

\* lib/audioProcessing mergeAudio, as the specification describes it: both
\* recordings are decoded, an error when their sample rates or channel
\* counts differ, their concatenation otherwise
mergeAudio(data1, data2) ==
    LET buffer1 == decodeAudioData(data1)
        buffer2 == decodeAudioData(data2)
    IN  IF formatsDiffer(buffer1, buffer2)
        THEN [ok |-> FALSE, merged |-> buffer1]
        ELSE [ok |-> TRUE, merged |-> mergeBuffers(buffer1, buffer2)]

(***************************************************************************)
(* Projects, chapters, lines.                                              *)
(***************************************************************************)
NoProject == [id |-> "", chapters |-> <<>>, lastModified |-> 0]

\* state.projects.find(p => p.id === projectId)
FindProject(projs, projectId) ==
    IF HasId(projs, projectId) THEN projs[IndexOfId(projs, projectId)]
    ELSE NoProject

\* project?.chapters.find(c => c.id === chapterId): its scriptLines
HasChapter(project, chapterId) == HasId(project.chapters, chapterId)

ChapterLines(project, chapterId) ==
    project.chapters[IndexOfId(project.chapters, chapterId)].scriptLines

\* project.chapters.map(c => c.id === chapterId ? {...c, scriptLines} : c)
WithChapterLines(project, chapterId, newLines) ==
    [project EXCEPT !.chapters = [i \in 1..Len(project.chapters) |->
        IF project.chapters[i].id = chapterId
        THEN [project.chapters[i] EXCEPT !.scriptLines = newLines]
        ELSE project.chapters[i]]]

\* { ...project, chapters: ..., lastModified: Date.now() }
UpdatedProject(project, chapterId, newLines, t) ==
    [WithChapterLines(project, chapterId, newLines) EXCEPT !.lastModified = t]

\* projects.map(p => p.id === projectId ? updatedProject : p)
MapProject(projs, projectId, updatedProject) ==
    [i \in 1..Len(projs) |->
        IF projs[i].id = projectId THEN updatedProject ELSE projs[i]]

\* Array.prototype.sort((a, b) => b.lastModified - a.lastModified): stable
RECURSIVE InsertByLastModified(_, _)
InsertByLastModified(sorted, p) ==
    IF sorted = <<>> THEN <<p>>
    ELSE IF Head(sorted).lastModified >= p.lastModified
         THEN <<Head(sorted)>> \o InsertByLastModified(Tail(sorted), p)
         ELSE <<p>> \o sorted

RECURSIVE SortByLastModified(_)
SortByLastModified(projs) ==
    IF projs = <<>> THEN <<>>
    ELSE InsertByLastModified(
             SortByLastModified(SubSeq(projs, 1, Len(projs) - 1)),
             projs[Len(projs)])

\* the primary keys of db.projects in their key order
ProjectKeys == <<"p1", "p2">>

\* db.projects.orderBy('lastModified').reverse().toArray()
RECURSIVE InsertAscending(_, _)
InsertAscending(sorted, p) ==
    IF sorted = <<>> THEN <<p>>
    ELSE IF Head(sorted).lastModified <= p.lastModified
         THEN <<Head(sorted)>> \o InsertAscending(Tail(sorted), p)
         ELSE <<p>> \o sorted

RECURSIVE OrderByLastModified(_, _)
OrderByLastModified(table, keys) ==
    IF keys = <<>> THEN <<>>
    ELSE LET rest == OrderByLastModified(table,
                                         SubSeq(keys, 1, Len(keys) - 1))
             key == keys[Len(keys)]
         IN  IF key \in DOMAIN table
             THEN InsertAscending(rest, table[key]) ELSE rest

Reverse(seq) == [i \in 1..Len(seq) |-> seq[Len(seq) + 1 - i]]

loadProjects(table) == Reverse(OrderByLastModified(table, ProjectKeys))

\* every audioBlobId set on a line of the project list
ReferencedIn(projs) ==
    UNION {UNION {{l.audioBlobId : l \in SeqToSet(c.scriptLines)} :
                     c \in SeqToSet(p.chapters)} :
              p \in SeqToSet(projs)}
    \ {NoAudio}

\* the rows of db.projects in key order
TableRows(table) ==
    LET keys == SelectSeq(ProjectKeys, LAMBDA key : key \in DOMAIN table)
    IN  [i \in 1..Len(keys) |-> table[keys[i]]]

(***************************************************************************)
(* The Dexie tables.  db.audioBlobs maps an id to {lineId, data};          *)
(* db.projects maps a project id to the stored project.                    *)
(***************************************************************************)
bulkDelete(blobs, ids) ==
    [id \in (DOMAIN blobs) \ SeqToSet(ids) |-> blobs[id]]

RECURSIVE bulkPut(_, _)
bulkPut(blobs, entries) ==
    IF entries = <<>> THEN blobs
    ELSE LET e == Head(entries)
         IN  bulkPut([id \in (DOMAIN blobs) \cup {e.id} |->
                         IF id = e.id
                         THEN [lineId |-> e.lineId, data |-> e.data]
                         ELSE blobs[id]],
                     Tail(entries))

putProject(table, project) ==
    [id \in (DOMAIN table) \cup {project.id} |->
        IF id = project.id THEN project ELSE table[id]]


(***************************************************************************)
(* lib/wavExporter.ts.  A Blob of audio is the Payload of its recording,   *)
(* sample rates are in Hz, a sample is counted in units of 1/32767 of full *)
(* scale, an ArrayBuffer is the sequence of its bytes and a string the     *)
(* sequence of its char codes.                                             *)
(***************************************************************************)
TARGET_SAMPLE_RATE == 44100
TARGET_CHANNELS == 1
TARGET_BIT_DEPTH == 16

\* a Blob that is not audio
Undecodable ==
    [sampleRate |-> 0, numberOfChannels |-> 0, length |-> 0, channels |-> <<>>]

\* what decodeAudioData rejects with: a DOMException of the browser
EncodingError ==
    [name |-> "EncodingError", message |-> "Unable to decode audio data"]

\* the sample the browser's resampler puts at position i (from 1) of length
\* samples made from channelData: the nearest earlier one
resampled(channelData, length) ==
    [i \in 1..length |->
        channelData[((i - 1) * Len(channelData)) \div length + 1]]

\* audioContext.decodeAudioData on a context of the given rate: the buffer
\* has the rate of the context
decodeAudioDataAt(data, sampleRate) ==
    LET length == (data.length * sampleRate + data.sampleRate - 1)
                      \div data.sampleRate
    IN  [sampleRate |-> sampleRate,
         channels |-> [c \in 1..data.numberOfChannels |->
                          resampled(data.channels[c], length)]]

\* the mono destination of the OfflineAudioContext mixes the channels down
downMix(channels, i) ==
    IF Len(channels) = 1 THEN channels[1][i]
    ELSE (channels[1][i] + channels[2][i]) \div 2

\* offlineCtx.startRendering(): duration * TARGET_SAMPLE_RATE frames
startRendering(buffer) ==
    LET length == (BufferLength(buffer) * TARGET_SAMPLE_RATE)
                      \div buffer.sampleRate
        mixed == [i \in 1..BufferLength(buffer) |-> downMix(buffer.channels, i)]
    IN  resampled(mixed, length)

processAudioBuffer(buffer) ==
    IF /\ buffer.sampleRate = TARGET_SAMPLE_RATE
       /\ Len(buffer.channels) = TARGET_CHANNELS
    THEN buffer.channels[1]
    ELSE startRendering(buffer)

\* one pass of the loop over decodedBuffers, without the cue of the segment
\* being at its start
pushCueAtEnd(acc, length) ==
    [cuePoints |-> Append(acc.cuePoints, acc.totalSamples + length),
     totalSamples |-> acc.totalSamples + length]

\* one pass of the loop over decodedBuffers: cuePoints.push(totalSamples);
\* totalSamples += pcm.length
pushCue(acc, length) ==
    [cuePoints |-> Append(acc.cuePoints, acc.totalSamples),
     totalSamples |-> acc.totalSamples + length]

NoCues == [cuePoints |-> <<>>, totalSamples |-> 0]

\* new ArrayBuffer(byteLength): zero-filled
ArrayBuffer(byteLength) == [k \in 1..byteLength |-> 0]

\* the low width bytes of value (two's complement), lowest first
LittleEndian(value, width) ==
    [b \in 1..width |-> (value \div (256 ^ (b - 1))) % 256]

\* new Uint8Array(buffer).set(bytes, offset); offset counts from 0
setBytes(view, offset, bytes) ==
    [k \in 1..Len(view) |->
        IF k > offset /\ k <= offset + Len(bytes) THEN bytes[k - offset]
        ELSE view[k]]

setUint32(view, offset, value) ==
    setBytes(view, offset, LittleEndian(value, 4))

setUint16(view, offset, value) ==
    setBytes(view, offset, LittleEndian(value, 2))

setUint8(view, offset, value) == setBytes(view, offset, <<value % 256>>)

writeString(view, offset, str) == setBytes(view, offset, str)

\* the char codes of the identifiers the file is written with
CharCodes(str) ==
    CASE str = "RIFF" -> <<82, 73, 70, 70>>
      [] str = "WAVE" -> <<87, 65, 86, 69>>
      [] str = "fmt " -> <<102, 109, 116, 32>>
      [] str = "data" -> <<100, 97, 116, 97>>
      [] str = "cue " -> <<99, 117, 101, 32>>
      [] str = "LIST" -> <<76, 73, 83, 84>>
      [] str = "adtl" -> <<97, 100, 116, 108>>
      [] str = "labl" -> <<108, 97, 98, 108>>

\* (i + 1).toString()
RECURSIVE toString(_)
toString(n) ==
    IF n < 10 THEN <<48 + n>>
    ELSE Append(toString(n \div 10), 48 + (n % 10))

\* Math.max(-1, Math.min(1, pcm[i])) * 32767 stored in an Int16Array
toPcm16(sample) ==
    IF sample > 32767 THEN 32767
    ELSE IF sample < -32767 THEN -32767
    ELSE sample

\* concatenatedPcm16: every pcm copied at the offset the ones before it end at
RECURSIVE concatenatePcm16(_)
concatenatePcm16(processedPcmData) ==
    IF processedPcmData = <<>> THEN <<>>
    ELSE [i \in 1..Len(Head(processedPcmData)) |->
             toPcm16(Head(processedPcmData)[i])]
         \o concatenatePcm16(Tail(processedPcmData))

\* new Uint8Array(concatenatedPcm16.buffer): two bytes per sample
Int16Bytes(pcm16) ==
    [k \in 1..(2 * Len(pcm16)) |->
        LittleEndian(pcm16[(k + 1) \div 2], 2)[2 - (k % 2)]]

\* the cue chunk body: the count, then one 24-byte record per cue point
RECURSIVE writeCuePoints(_, _, _)
writeCuePoints(cueView, cuePoints, i) ==
    IF i >= Len(cuePoints) THEN cueView
    ELSE LET cueOffset == 4 + i * 24
             sampleFrame == cuePoints[i + 1]
             v1 == setUint32(cueView, cueOffset, i + 1)
             v2 == setUint32(v1, cueOffset + 4, sampleFrame)
             v3 == writeString(v2, cueOffset + 8, CharCodes("data"))
             v4 == setUint32(v3, cueOffset + 12, 0)
             v5 == setUint32(v4, cueOffset + 16, 0)
             v6 == setUint32(v5, cueOffset + 20, sampleFrame)
         IN  writeCuePoints(v6, cuePoints, i + 1)

cueChunkSizeOf(cuePoints) == 4 + Len(cuePoints) * 24

\* the cue chunk body with its count field left at zero
cueBufferWithoutCount(cuePoints) ==
    writeCuePoints(ArrayBuffer(cueChunkSizeOf(cuePoints)), cuePoints, 0)

cueBufferOf(cuePoints) ==
    writeCuePoints(setUint32(ArrayBuffer(cueChunkSizeOf(cuePoints)), 0,
                             Len(cuePoints)),
                   cuePoints, 0)

\* the labl sub-chunk of a cue point with the ids counted from 0
labelChunkIdFromZero(i) ==
    LET label == toString(i + 1)
        dataSize == 4 + Len(label) + 1
        totalChunkSize == 8 + dataSize
    IN  [id |-> i, text |-> label,
         size |-> totalChunkSize + (totalChunkSize % 2),
         dataSize |-> dataSize]

\* the labl sub-chunk of a cue point without the padding to an even size
labelChunkUnpadded(i) ==
    LET label == toString(i + 1)
        dataSize == 4 + Len(label) + 1
    IN  [id |-> i + 1, text |-> label, size |-> 8 + dataSize,
         dataSize |-> dataSize]

\* the labl sub-chunk of cue point i (from 0)
labelChunk(i) ==
    LET label == toString(i + 1)
        dataSize == 4 + Len(label) + 1
        totalChunkSize == 8 + dataSize
        paddedChunkSize == totalChunkSize + (totalChunkSize % 2)
    IN  [id |-> i + 1, text |-> label, size |-> paddedChunkSize,
         dataSize |-> dataSize]

labelChunksOf(cuePoints) == [i \in 1..Len(cuePoints) |-> labelChunk(i - 1)]

RECURSIVE labelsChunkSizeOf(_)
labelsChunkSizeOf(labelChunks) ==
    IF labelChunks = <<>> THEN 0
    ELSE Head(labelChunks).size + labelsChunkSizeOf(Tail(labelChunks))

listChunkSizeOf(cuePoints) == 4 + labelsChunkSizeOf(labelChunksOf(cuePoints))

RECURSIVE writeLabels(_, _, _)
writeLabels(listView, labelChunks, listOffset) ==
    IF labelChunks = <<>> THEN listView
    ELSE LET labelInfo == Head(labelChunks)
             v1 == writeString(listView, listOffset, CharCodes("labl"))
             v2 == setUint32(v1, listOffset + 4, labelInfo.dataSize)
             v3 == setUint32(v2, listOffset + 8, labelInfo.id)
             v4 == writeString(v3, listOffset + 12, labelInfo.text)
             v5 == setUint8(v4, listOffset + 12 + Len(labelInfo.text), 0)
         IN  writeLabels(v5, Tail(labelChunks), listOffset + labelInfo.size)

listBufferOf(cuePoints) ==
    writeLabels(writeString(ArrayBuffer(listChunkSizeOf(cuePoints)), 0,
                            CharCodes("adtl")),
                labelChunksOf(cuePoints), 4)

\* the size of the file without the eight bytes of the LIST header
fileSizeWithoutListHeader(pcmDataSize, cuePoints) ==
    44 + pcmDataSize + (8 + cueChunkSizeOf(cuePoints))
       + listChunkSizeOf(cuePoints)

\* headerSize + pcmDataSize + (8 + cueChunkSize) + (8 + listChunkSize)
fileSizeOf(pcmDataSize, cuePoints) ==
    44 + pcmDataSize + (8 + cueChunkSizeOf(cuePoints))
       + (8 + listChunkSizeOf(cuePoints))

\* steps 3 to 5 of exportAudioWithMarkers: the bytes of the Blob, or the
\* RangeError of a write beyond the end of finalBuffer
assemble(processedPcmData, cuePoints) ==
    LET concatenatedPcm16 == concatenatePcm16(processedPcmData)
        pcmBytes == Int16Bytes(concatenatedPcm16)
        pcmDataSize == Len(pcmBytes)
        bytesPerSample == TARGET_BIT_DEPTH \div 8
        cueChunkSize == cueChunkSizeOf(cuePoints)
        listChunkSize == listChunkSizeOf(cuePoints)
        fileSize == fileSizeOf(pcmDataSize, cuePoints)
        b0 == ArrayBuffer(fileSize)
        b1 == writeString(b0, 0, CharCodes("RIFF"))
        b2 == setUint32(b1, 4, fileSize - 8)
        b3 == writeString(b2, 8, CharCodes("WAVE"))
        b4 == writeString(b3, 12, CharCodes("fmt "))
        b5 == setUint32(b4, 16, 16)
        b6 == setUint16(b5, 20, 1)
        b7 == setUint16(b6, 22, TARGET_CHANNELS)
        b8 == setUint32(b7, 24, TARGET_SAMPLE_RATE)
        b9 == setUint32(b8, 28,
                        TARGET_SAMPLE_RATE * TARGET_CHANNELS * bytesPerSample)
        b10 == setUint16(b9, 32, TARGET_CHANNELS * bytesPerSample)
        b11 == setUint16(b10, 34, TARGET_BIT_DEPTH)
        b12 == writeString(b11, 36, CharCodes("data"))
        b13 == setUint32(b12, 40, pcmDataSize)
        b14 == setBytes(b13, 44, pcmBytes)
        o1 == 44 + pcmDataSize
        b15 == writeString(b14, o1, CharCodes("cue "))
        b16 == setUint32(b15, o1 + 4, cueChunkSize)
        b17 == setBytes(b16, o1 + 8, cueBufferOf(cuePoints))
        o2 == o1 + 8 + cueChunkSize
        b18 == writeString(b17, o2, CharCodes("LIST"))
        b19 == setUint32(b18, o2 + 4, listChunkSize)
        b20 == setBytes(b19, o2 + 8, listBufferOf(cuePoints))
        o3 == o2 + 8 + listChunkSize
    IN  IF o3 <= fileSize THEN [ok |-> TRUE, bytes |-> b20]
        ELSE [ok |-> FALSE, bytes |-> <<>>]

(***************************************************************************)
(* State.                                                                  *)
(***************************************************************************)
VARIABLES
    slice,          \* the revision of projectSlice.ts that is built
    now,            \* Date.now()
    characters,     \* AppState.characters
    projects,       \* AppState.projects
    dbProjects,     \* db.projects
    dbAudioBlobs,   \* db.audioBlobs
    tx,             \* the open 'rw' transaction and its uncommitted writes
    ops,            \* the store calls in flight, one per slot
    overlap,        \* whether a call may be issued while another is in flight
    exp,            \* the call of exportAudioWithMarkers
    nOps,           \* number of store calls issued
    nEdits,         \* number of editor edits applied
    last,           \* the call that finished last: its kind, outcome and record
    faulted         \* some call threw, or the page was reloaded mid-call

vars == <<slice, now, characters, projects, dbProjects, dbAudioBlobs, tx, ops,
          overlap, exp, nOps, nEdits, last, faulted>>

\* what the exporter neither reads nor writes
storeVars == <<slice, now, characters, projects, dbProjects, dbAudioBlobs, tx,
               ops, overlap, nOps, nEdits, last, faulted>>

Slots == {1, 2}

NoTx == [owner |-> 0, projects |-> <<>>, audioBlobs |-> <<>>]

NoPlan == [scriptLines |-> <<>>, blobsToDelete |-> <<>>, newBlobs |-> <<>>]

IdleOp == [pc |-> "idle", kind |-> "none", projectId |-> "", chapterId |-> "",
           lineId |-> "", mode |-> "", splitSample |-> 0, seq |-> 0,
           ticket |-> 0,
           snap |-> [projects |-> <<>>, characters |-> <<>>],
           preProjects |-> <<>>, preDbProjects |-> <<>>, preBlobs |-> <<>>,
           chain |-> <<>>, chained |-> FALSE, plan |-> NoPlan,
           updatedProject |-> NoProject,
           got |-> <<>>, buffers |-> <<>>, todo |-> <<>>, issued |-> <<>>]

\* the steps a call still has to run, in program order
DeleteStep(ids, inTx) ==
    [k |-> "bulkDelete", tx |-> inTx, ids |-> ids, blobs |-> <<>>,
     project |-> NoProject]
PutBlobsStep(blobs, inTx) ==
    [k |-> "bulkPut", tx |-> inTx, ids |-> <<>>, blobs |-> blobs,
     project |-> NoProject]
PutProjectStep(project, inTx) ==
    [k |-> "putProject", tx |-> inTx, ids |-> <<>>, blobs |-> <<>>,
     project |-> project]
CommitStep ==
    [k |-> "commit", tx |-> TRUE, ids |-> <<>>, blobs |-> <<>>,
     project |-> NoProject]
\* targetChapter.scriptLines[i] = ... / updatedProject.chapters[i] = ... on the
\* arrays the store still holds
MutateStep(project) ==
    [k |-> "mutate", tx |-> FALSE, ids |-> <<>>, blobs |-> <<>>,
     project |-> project]
\* set({ projects: state.projects.map(...) }) with the state read at the call
SetSnapStep(project) ==
    [k |-> "setSnap", tx |-> FALSE, ids |-> <<>>, blobs |-> <<>>,
     project |-> project]
\* set(state => ({ projects: state.projects.map(...).sort(...) }))
SetFnStep(project) ==
    [k |-> "setFn", tx |-> FALSE, ids |-> <<>>, blobs |-> <<>>,
     project |-> project]
\* updatedProject.lastModified = Date.now() on the copy that is stored next
StampStep ==
    [k |-> "stamp", tx |-> FALSE, ids |-> <<>>, blobs |-> <<>>,
     project |-> NoProject]
\* the call of updateLineAudio(projectId, chapterId, lineId, ids[1])
UpdateLineAudioStep(audioBlobId) ==
    [k |-> "updateLineAudio", tx |-> FALSE, ids |-> <<audioBlobId>>,
     blobs |-> <<>>, project |-> NoProject]

\* the steps that await the database and can reject
Awaited == {"bulkDelete", "bulkPut", "putProject", "commit"}


(***************************************************************************)
(* updateLineAudio: the project it stores, computed from the project list  *)
(* of the store at the time of the call.                                   *)
(***************************************************************************)
updateLineAudioProject(project, chapterId, lineId, audioBlobId, t) ==
    [project EXCEPT
        !.chapters = [i \in 1..Len(project.chapters) |->
            IF project.chapters[i].id = chapterId
            THEN [project.chapters[i] EXCEPT !.scriptLines =
                    [j \in 1..Len(project.chapters[i].scriptLines) |->
                        IF project.chapters[i].scriptLines[j].id = lineId
                        THEN WithAudio(project.chapters[i].scriptLines[j],
                                       audioBlobId)
                        ELSE project.chapters[i].scriptLines[j]]]
            ELSE project.chapters[i]],
        !.lastModified = t]

(***************************************************************************)
(* The synchronous part of a call: everything it runs up to its next       *)
(* await.  m is [projects, op]; the result is m after the steps at the     *)
(* head of op.todo that do not await.                                      *)
(***************************************************************************)
RECURSIVE RunSync(_, _)
RunSync(m, t) ==
    IF m.op.todo = <<>> \/ Head(m.op.todo).k \in Awaited THEN m
    ELSE LET st == Head(m.op.todo)
             rest == Tail(m.op.todo)
             op == m.op
         IN  CASE st.k = "mutate" ->
                    RunSync([projects |-> MapProject(m.projects, st.project.id,
                                                     st.project),
                             op |-> [op EXCEPT
                                 !.snap.projects = MapProject(@, st.project.id,
                                                              st.project),
                                 !.todo = rest]], t)
               [] st.k = "stamp" ->
                    RunSync([projects |-> m.projects,
                             op |-> [op EXCEPT !.todo =
                                 [i \in 1..Len(rest) |->
                                     IF rest[i].project.id # ""
                                     THEN [rest[i] EXCEPT
                                              !.project.lastModified = t]
                                     ELSE rest[i]]]], t)
               [] st.k = "setSnap" ->
                    RunSync([projects |-> MapProject(op.snap.projects,
                                                     st.project.id, st.project),
                             op |-> [op EXCEPT !.todo = rest]], t)
               [] st.k = "setFn" ->
                    RunSync([projects |-> SortByLastModified(
                                 MapProject(m.projects, st.project.id,
                                            st.project)),
                             op |-> [op EXCEPT !.todo = rest]], t)
               [] st.k = "updateLineAudio" ->
                    LET project == FindProject(m.projects, op.projectId)
                        updatedProject ==
                            updateLineAudioProject(project, op.chapterId,
                                                   op.lineId, st.ids[1], t)
                    IN  IF project.id = ""
                        THEN RunSync([projects |-> m.projects,
                                      op |-> [op EXCEPT !.todo = rest]], t)
                        ELSE RunSync([projects |-> m.projects,
                                      op |-> [op EXCEPT !.todo =
                                          <<PutProjectStep(updatedProject, FALSE),
                                            SetFnStep(updatedProject)>>
                                          \o rest]], t)

\* the database after an awaited step; d is [projects, audioBlobs]
ApplyStep(d, st) ==
    CASE st.k = "bulkDelete" ->
            [d EXCEPT !.audioBlobs = bulkDelete(@, st.ids)]
      [] st.k = "bulkPut" ->
            [d EXCEPT !.audioBlobs = bulkPut(@, st.blobs)]
      [] st.k = "putProject" ->
            [d EXCEPT !.projects = putProject(@, st.project)]
      [] OTHER -> d


(***************************************************************************)
(* Initial state: the store after loadInitialData.                         *)
(***************************************************************************)
\* samples of an uploaded recording; times are counted in units of 10 ms and
\* the sample rate is one sample per unit
UploadSamples == 3

Line(id, characterId, n) ==
    [id |-> id, characterId |-> characterId,
     audioBlobId |-> IF n = 0 THEN NoAudio ELSE InitialBlobId(n),
     text |-> <<id>>]

\* the global default characters of loadInitialData and two characters of p1
\* that share one voice talent
InitCharacters ==
    <<[id |-> "cSil", name |-> SilentName, cvName |-> "", projectId |-> ""],
      [id |-> "cNar", name |-> "Narrator", cvName |-> "", projectId |-> ""],
      [id |-> "cX", name |-> "X", cvName |-> "cvA", projectId |-> "p1"],
      [id |-> "cY", name |-> "Y", cvName |-> "cvA", projectId |-> "p1"]>>

\* the line arrays chapter ch1 starts with, and the recordings among them
\* that have two channels; every other recording has one
Layouts ==
    { [lines |-> <<Line("L1", "cNar", 1), Line("L2", "cX", 2),
                   Line("L3", "cX", 0), Line("L4", "cX", 4)>>,
       stereo |-> {}],
      [lines |-> <<Line("L1", "cX", 1), Line("L2", "cX", 2),
                   Line("L3", "cY", 3), Line("L4", "cNar", 4)>>,
       stereo |-> {}],
      [lines |-> <<Line("L1", "cX", 1), Line("L2", "cSil", 0),
                   Line("L3", "cX", 3), Line("L4", "cX", 4)>>,
       stereo |-> {InitialBlobId(4)}] }

InitProjects(scriptLines) ==
    [p \in {"p1", "p2"} |->
        IF p = "p1"
        THEN [id |-> "p1", lastModified |-> 0, chapters |->
                <<[id |-> "ch1", scriptLines |-> scriptLines],
                  [id |-> "ch2", scriptLines |->
                      <<Line("M1", "cSil", 5), Line("M2", "cY", 6)>>]>>]
        ELSE [id |-> "p2", lastModified |-> 0, chapters |->
                <<[id |-> "ch3", scriptLines |->
                      <<Line("N1", "cNar", 7), Line("N2", "cNar", 8)>>]>>]]

\* the recording of N2 has twice the sample rate of the others
DoubleRate == {InitialBlobId(8)}

\* the AudioBlob rows of the assets the lines reference
InitBlobs(projs, stereo) ==
    [id \in ReferencedIn(projs) |->
        [lineId |-> (CHOOSE l \in UNION {UNION {SeqToSet(c.scriptLines) :
                                            c \in SeqToSet(p.chapters)} :
                                        p \in SeqToSet(projs)} :
                        l.audioBlobId = id).id,
         data |-> Payload(IF id \in DoubleRate THEN 2 ELSE 1,
                          Recorded(id[3], IF id \in stereo THEN 2 ELSE 1,
                                   UploadSamples))]]

\* the placeholder of a decode that has not settled
NoBuffer == [sampleRate |-> 0, channels |-> <<>>]

\* before exportAudioWithMarkers is called
NoExport ==
    [pc |-> "idle", linesWithAudio |-> <<>>, sampleRate |-> 0,
     settled |-> <<>>, outOfOrder |-> FALSE, decodedBuffers |-> <<>>,
     cues |-> NoCues, processedPcmData |-> <<>>,
     result |-> [kind |-> "none", bytes |-> <<>>, error |-> <<>>],
     closed |-> FALSE]

InitWith(ov) ==
    /\ slice \in Slices
    /\ now = 1
    /\ characters = InitCharacters
    /\ \E layout \in Layouts :
          /\ dbProjects = InitProjects(layout.lines)
          /\ projects = loadProjects(InitProjects(layout.lines))
          /\ dbAudioBlobs = InitBlobs(loadProjects(InitProjects(layout.lines)),
                                      layout.stereo)
    /\ tx = NoTx
    /\ ops = [s \in Slots |-> IdleOp]
    /\ overlap = ov
    /\ exp = NoExport
    /\ nOps = 0
    /\ nEdits = 0
    /\ last = [kind |-> "none", result |-> "none", op |-> IdleOp]
    /\ faulted = FALSE

Init == InitWith(FALSE)

(***************************************************************************)
(* Issuing, running and finishing a call.                                  *)
(***************************************************************************)
\* the (projectId, chapterId, lineId) arguments the calls are issued with
Targets ==
    { <<"p1", "ch1", "L1">>, <<"p1", "ch1", "L2">>, <<"p1", "ch1", "L3">>,
      <<"p1", "ch1", "L4">>, <<"p1", "ch2", "M1">>, <<"p1", "ch2", "M2">>,
      <<"p2", "ch3", "N1">>, <<"p2", "ch3", "N2">>,
      <<"p1", "ch1", "zz">>, <<"p1", "zz", "L1">>, <<"zz", "ch1", "L1">> }

\* the calls whose body is a try/catch
Caught == {"split", "shiftDown", "shiftUp", "merge", "mergeUp"}

\* the number of calls of a behaviour: one more when calls may overlap
Budget == IF overlap THEN MaxOps + 1 ELSE MaxOps

CanIssue(s) ==
    /\ ops[s].pc = "idle"
    /\ nOps < Budget
    /\ IF overlap THEN \A t \in Slots : t < s => ops[t].pc # "idle"
       ELSE s = 1 /\ \A t \in Slots : ops[t].pc = "idle"

Begin(kind, tg, mode, splitSample) ==
    [IdleOp EXCEPT !.kind = kind, !.projectId = tg[1], !.chapterId = tg[2],
                   !.lineId = tg[3], !.mode = mode,
                   !.splitSample = splitSample, !.seq = nOps + 1,
                   !.snap = [projects |-> projects, characters |-> characters],
                   !.preProjects = projects, !.preDbProjects = dbProjects,
                   !.preBlobs = dbAudioBlobs]

\* a return that leaves db.audioBlobs empty
ReturnAndClear(op, result) ==
    /\ last' = [kind |-> op.kind, result |-> result, op |-> op]
    /\ nOps' = nOps + 1
    /\ dbAudioBlobs' = [id \in {} |-> id]
    /\ UNCHANGED <<slice, now, characters, projects, dbProjects, tx, ops,
                   overlap, exp, nEdits, faulted>>

\* the call returns without having started anything
Return(op, result) ==
    /\ last' = [kind |-> op.kind, result |-> result, op |-> op]
    /\ nOps' = nOps + 1
    /\ UNCHANGED <<slice, now, characters, projects, dbProjects, dbAudioBlobs,
                   tx, ops, overlap, exp, nEdits, faulted>>

\* the calls that wait for the database: IndexedDB starts the transactions
\* whose scopes overlap in the order they were created in, and every request
\* made outside db.transaction is a transaction of its own
Queued(op) == op.pc \in {"get", "steps"}

NextTicket(s) ==
    LET T == {ops[t].ticket : t \in {u \in Slots \ {s} : Queued(ops[u])}}
    IN  IF T = {} THEN 1 ELSE 1 + (CHOOSE n \in T : \A m \in T : m <= n)

\* the request of the call of slot s is the one the database runs next
Served(s) ==
    \/ tx.owner = s
    \/ /\ tx.owner = 0
       /\ \A t \in Slots \ {s} :
             Queued(ops[t]) => ops[t].ticket > ops[s].ticket

\* the call runs to its next await, or to its end
Advance(s, op) ==
    LET m == RunSync([projects |-> projects, op |-> op], now)
    IN  /\ projects' = m.projects
        /\ IF m.op.todo = <<>>
           THEN /\ ops' = [ops EXCEPT ![s] = IdleOp]
                /\ last' = [kind |-> op.kind, result |-> "ok", op |-> m.op]
           ELSE /\ ops' = [ops EXCEPT ![s] = [m.op EXCEPT
                                     !.pc = "steps",
                                     !.ticket = NextTicket(s)]]
                /\ UNCHANGED last

\* the call suspends at db.audioBlobs.get
Suspend(s, op) ==
    /\ ops' = [ops EXCEPT ![s] = [op EXCEPT !.pc = "get",
                                            !.ticket = NextTicket(s)]]
    /\ nOps' = nOps + 1
    /\ UNCHANGED <<slice, now, characters, projects, dbProjects, dbAudioBlobs,
                   tx, overlap, exp, nEdits, last, faulted>>

\* the call was issued and has run its first synchronous part
Launch(s, op) ==
    /\ Advance(s, op)
    /\ nOps' = nOps + 1
    /\ UNCHANGED <<slice, now, characters, dbProjects, dbAudioBlobs, tx,
                   overlap, exp, nEdits, faulted>>

\* the catch block, or the rejection of a call without one
Fail(s) ==
    /\ ops' = [ops EXCEPT ![s] = IdleOp]
    /\ last' = [kind |-> ops[s].kind,
                result |-> IF ops[s].kind \in Caught THEN "error"
                           ELSE "rejected",
                op |-> ops[s]]
    /\ tx' = IF tx.owner = s THEN NoTx ELSE tx
    /\ faulted' = TRUE

\* how the promise of a call settles for its caller: the calls are
\* async (...) => Promise<void>, a return and the end of a catch block
\* fulfil it with undefined, an exception no catch block takes rejects it
Settlement(result) ==
    IF result = "rejected" THEN "rejected" ELSE "fulfilled with undefined"

\* a call can still be issued, or one is in flight: what the clock, the
\* character store and the editor do afterwards is not followed
Active == nOps < Budget \/ \E s \in Slots : ops[s].pc # "idle"

Dedupe(seq) ==
    SelectSeq([i \in 1..Len(seq) |->
                  IF \E j \in 1..(i - 1) : seq[j] = seq[i]
                  THEN NoAudio ELSE seq[i]],
              LAMBDA x : x # NoAudio)


(***************************************************************************)
(* splitAndShiftAudio                                                      *)
(***************************************************************************)
splitAndShiftAudio(s, tg, splitSample, mode) ==
    LET project == FindProject(projects, tg[1])
        found == /\ project.id # ""
                 /\ HasChapter(project, tg[2])
                 /\ HasId(ChapterLines(project, tg[2]), tg[3])
        line == LET lines == ChapterLines(project, tg[2])
                IN  lines[IndexOfId(lines, tg[3])]
    IN  /\ CanIssue(s)
        /\ IF \/ ~found
              \/ line.audioBlobId = NoAudio
              \/ (slice = "part_002" /\ splitSample <= 0)
           THEN Return(Begin("split", tg, "", splitSample), "noop")
           ELSE Suspend(s, Begin("split", tg, mode, splitSample))

\* the steps of the commit of a split, and of the set that follows it
splitTodo(project, updatedProject, plan) ==
    (IF slice = "part_002" THEN <<MutateStep(
         [updatedProject EXCEPT !.lastModified = project.lastModified])>>
     ELSE <<>>)
    \o <<DeleteStep(plan.blobsToDelete, TRUE),
         PutBlobsStep(plan.newBlobs, TRUE),
         PutProjectStep(updatedProject, TRUE),
         CommitStep,
         SetSnapStep(updatedProject)>>

\* after decodeAudioData / splitAudio: the plan is computed and the
\* transaction is opened
splitDecoded(s) ==
    LET op == ops[s]
        project == FindProject(op.snap.projects, op.projectId)
        lines == ChapterLines(project, op.chapterId)
        lineIndex == IndexOfId(lines, op.lineId)
        cut == IF slice = "part_002"
               THEN splitBuffers(decodeAudioData(op.got[1]), op.splitSample)
               ELSE splitAudio(op.got[1], op.splitSample)
        chain == calculateShiftChain(lines, lineIndex + 1, op.mode, characters,
                                     lines[lineIndex].characterId)
        plan == splitPlan(lines, lineIndex, chain,
                          <<"audio_split", now, 1>>, <<"audio_split", now, 2>>,
                          bufferToWav(cut.part1), bufferToWav(cut.part2))
        updatedProject == UpdatedProject(project, op.chapterId,
                                         plan.scriptLines, now)
    IN  /\ op.pc = "decode"
        /\ op.kind = "split"
        /\ IF cut.ok
           THEN /\ Advance(s, [op EXCEPT !.chain = chain, !.chained = TRUE,
                                  !.plan = plan,
                                  !.buffers = <<cut.part1, cut.part2>>,
                                  !.snap.characters = characters,
                                  !.updatedProject = updatedProject,
                                  !.todo = splitTodo(project, updatedProject,
                                                     plan)])
                /\ UNCHANGED <<tx, faulted>>
           ELSE IF slice = "part_002"
                THEN /\ ops' = [ops EXCEPT ![s] = IdleOp]
                     /\ last' = [kind |-> "split", result |-> "noop",
                                  op |-> op]
                     /\ UNCHANGED <<projects, tx, faulted>>
                ELSE Fail(s) /\ UNCHANGED projects
        /\ UNCHANGED <<slice, now, characters, dbProjects, dbAudioBlobs,
                       overlap, exp, nOps, nEdits>>

(***************************************************************************)
(* shiftAudioDown                                                          *)
(***************************************************************************)
\* the steps of part_003: one transaction, then set
shiftTodo(updatedProject, plan) ==
    (IF plan.blobsToDelete # <<>>
     THEN <<DeleteStep(plan.blobsToDelete, TRUE)>> ELSE <<>>)
    \o <<PutProjectStep(updatedProject, TRUE),
         CommitStep,
         SetSnapStep(updatedProject)>>

\* the steps of shiftAudioDown in part_002: the line array of the store is
\* rewritten in place, the assets are deleted and the project is stored
\* without a transaction
shiftDownTodo002(chain, mutated, plan) ==
    IF Len(chain) <= 1
    THEN (IF plan.blobsToDelete # <<>>
          THEN <<DeleteStep(plan.blobsToDelete, FALSE)>> ELSE <<>>)
         \o <<MutateStep(mutated), StampStep,
              PutProjectStep(mutated, FALSE), SetSnapStep(mutated)>>
    ELSE <<MutateStep(mutated)>>
         \o (IF plan.blobsToDelete # <<>>
             THEN <<DeleteStep(plan.blobsToDelete, FALSE)>> ELSE <<>>)
         \o <<StampStep, PutProjectStep(mutated, FALSE),
              SetSnapStep(mutated)>>

shiftAudioDown(s, tg, mode) ==
    LET project == FindProject(projects, tg[1])
        found == /\ project.id # ""
                 /\ HasChapter(project, tg[2])
                 /\ HasId(ChapterLines(project, tg[2]), tg[3])
        lines == ChapterLines(project, tg[2])
        startLineIndex == IndexOfId(lines, tg[3])
        chain == calculateShiftChain(lines, startLineIndex, mode, characters,
                                     lines[startLineIndex].characterId)
        plan == IF slice = "part_003" THEN shiftDownPlan(lines, chain)
                ELSE IF Len(chain) <= 1
                     THEN clearStartLinePlan(lines, startLineIndex)
                     ELSE rippleDownInPlace(lines, chain, NoAudio)
        op == [Begin("shiftDown", tg, mode, 0) EXCEPT
                  !.chain = chain, !.chained = TRUE, !.plan = plan]
    IN  /\ CanIssue(s)
        /\ IF ~found THEN Return(Begin("shiftDown", tg, "", 0), "noop")
           ELSE IF slice = "part_003"
           THEN IF Len(chain) = 0
                THEN Return([Begin("shiftDown", tg, mode, 0) EXCEPT
                                !.chain = chain, !.chained = TRUE], "noop")
                ELSE LET updatedProject ==
                             UpdatedProject(project, tg[2], plan.scriptLines,
                                            now)
                     IN  Launch(s, [op EXCEPT
                             !.updatedProject = updatedProject,
                             !.todo = shiftTodo(updatedProject, plan)])
           ELSE LET mutated == WithChapterLines(project, tg[2],
                                                plan.scriptLines)
                IN  Launch(s, [op EXCEPT
                        !.updatedProject = mutated,
                        !.todo = shiftDownTodo002(chain, mutated, plan)])

(***************************************************************************)
(* shiftAudioUp                                                            *)
(***************************************************************************)
shiftAudioUp(s, tg, mode) ==
    LET project == FindProject(projects, tg[1])
        found == /\ project.id # ""
                 /\ HasChapter(project, tg[2])
                 /\ HasId(ChapterLines(project, tg[2]), tg[3])
        lines == ChapterLines(project, tg[2])
        startLineIndex == IndexOfId(lines, tg[3])
        chain == IF slice = "part_003"
                 THEN calculateShiftChain(lines, startLineIndex, mode,
                          characters, lines[startLineIndex].characterId)
                 ELSE eligibleLinesFrom(lines, startLineIndex, mode, characters)
        plan == IF slice = "part_003" THEN shiftUpPlan(lines, chain)
                ELSE shiftUpPlanById(lines, chain)
        updatedProject == UpdatedProject(project, tg[2], plan.scriptLines, now)
        op == [Begin("shiftUp", tg, mode, 0) EXCEPT
                  !.chain = chain, !.chained = TRUE, !.plan = plan,
                  !.updatedProject = updatedProject]
    IN  /\ CanIssue(s)
        /\ IF ~found THEN Return(Begin("shiftUp", tg, "", 0), "noop")
           ELSE IF Len(chain) < 2
                THEN Return([Begin("shiftUp", tg, mode, 0) EXCEPT
                                !.chain = chain, !.chained = TRUE], "alert")
           ELSE Launch(s, [op EXCEPT !.todo =
                    (IF slice = "part_002" THEN <<MutateStep(
                         [updatedProject EXCEPT
                             !.lastModified = project.lastModified])>>
                     ELSE <<>>)
                    \o shiftTodo(updatedProject, plan)])


(***************************************************************************)
(* mergeWithNextAndShift (part_003)                                        *)
(***************************************************************************)
mergeWithNextAndShift(s, tg, mode) ==
    LET project == FindProject(projects, tg[1])
        found == /\ project.id # ""
                 /\ HasChapter(project, tg[2])
                 /\ HasId(ChapterLines(project, tg[2]), tg[3])
        lines == ChapterLines(project, tg[2])
        currentLineIndex == IndexOfId(lines, tg[3])
        nextLineIndex == nextSameCharacterIndex(lines, currentLineIndex)
    IN  /\ slice = "part_003"
        /\ CanIssue(s)
        /\ IF ~found THEN Return(Begin("merge", tg, "", 0), "noop")
           ELSE IF nextLineIndex = 0
                THEN Return(Begin("merge", tg, "", 0), "alert")
           ELSE IF \/ lines[currentLineIndex].audioBlobId = NoAudio
                   \/ lines[nextLineIndex].audioBlobId = NoAudio
                THEN Return(Begin("merge", tg, "", 0), "alert")
           ELSE Suspend(s, Begin("merge", tg, mode, 0))

mergeDecoded(s) ==
    LET op == ops[s]
        project == FindProject(op.snap.projects, op.projectId)
        lines == ChapterLines(project, op.chapterId)
        currentLineIndex == IndexOfId(lines, op.lineId)
        nextLineIndex == nextSameCharacterIndex(lines, currentLineIndex)
        chain == calculateShiftChain(lines, nextLineIndex + 1, op.mode,
                     characters, lines[currentLineIndex].characterId)
        mergedBlob == mergeAudio(op.got[1], op.got[2])
        plan == mergePlan(lines, currentLineIndex, nextLineIndex, chain,
                          <<"audio_merged", now, 0>>,
                          bufferToWav(mergedBlob.merged))
        updatedProject == UpdatedProject(project, op.chapterId,
                                         plan.scriptLines, now)
    IN  /\ op.pc = "decode"
        /\ op.kind = "merge"
        /\ IF mergedBlob.ok
           THEN /\ Advance(s, [op EXCEPT
                       !.chain = chain, !.chained = TRUE,
                       !.plan = plan,
                       !.buffers = <<decodeAudioData(bufferToWav(
                                         mergedBlob.merged))>>,
                       !.snap.characters = characters,
                       !.updatedProject = updatedProject,
                       !.todo = <<DeleteStep(Dedupe(plan.blobsToDelete), TRUE),
                                  PutBlobsStep(plan.newBlobs, TRUE),
                                  PutProjectStep(updatedProject, TRUE),
                                  CommitStep,
                                  SetSnapStep(updatedProject)>>])
                /\ UNCHANGED <<tx, faulted>>
           ELSE Fail(s) /\ UNCHANGED projects
        /\ UNCHANGED <<slice, now, characters, dbProjects, dbAudioBlobs,
                       overlap, exp, nOps, nEdits>>

(***************************************************************************)
(* mergeAudioUp (part_002)                                                 *)
(***************************************************************************)
mergeAudioUp(s, tg, mode) ==
    LET project == FindProject(projects, tg[1])
        found == project.id # "" /\ HasChapter(project, tg[2])
        lines == ChapterLines(project, tg[2])
        currentLineIndex == IndexOfId(lines, tg[3])
    IN  /\ slice = "part_002"
        /\ CanIssue(s)
        /\ IF ~found THEN Return(Begin("mergeUp", tg, "", 0), "noop")
           ELSE IF currentLineIndex <= 1
                THEN Return(Begin("mergeUp", tg, "", 0), "alert")
           ELSE IF \/ lines[currentLineIndex].audioBlobId = NoAudio
                   \/ lines[currentLineIndex - 1].audioBlobId = NoAudio
                THEN Return(Begin("mergeUp", tg, "", 0), "alert")
           ELSE IF lines[currentLineIndex].characterId
                      # lines[currentLineIndex - 1].characterId
                THEN Return(Begin("mergeUp", tg, "", 0), "alert")
           ELSE Suspend(s, Begin("mergeUp", tg, mode, 0))

mergeUpDecoded(s) ==
    LET op == ops[s]
        project == FindProject(op.snap.projects, op.projectId)
        lines == ChapterLines(project, op.chapterId)
        currentLineIndex == IndexOfId(lines, op.lineId)
        buffer1 == decodeAudioData(op.got[1])
        buffer2 == decodeAudioData(op.got[2])
        chain == calculateShiftChain(lines, currentLineIndex, op.mode,
                     op.snap.characters, lines[currentLineIndex].characterId)
        plan == mergeUpPlan(lines, currentLineIndex, chain,
                            <<"audio_merged", now, 0>>,
                            bufferToWav(mergeBuffers(buffer1, buffer2)))
        updatedProject == UpdatedProject(project, op.chapterId,
                                         plan.scriptLines, now)
    IN  /\ op.pc = "decode"
        /\ op.kind = "mergeUp"
        /\ IF formatsDiffer(buffer1, buffer2)
           THEN Fail(s) /\ UNCHANGED projects
           ELSE /\ Advance(s, [op EXCEPT
                       !.chain = chain, !.chained = TRUE,
                       !.plan = plan,
                       !.buffers = <<mergeBuffers(buffer1, buffer2)>>,
                       !.updatedProject = updatedProject,
                       !.todo = <<MutateStep([updatedProject EXCEPT
                                      !.lastModified = project.lastModified]),
                                  DeleteStep(plan.blobsToDelete, TRUE),
                                  PutBlobsStep(plan.newBlobs, TRUE),
                                  PutProjectStep(updatedProject, TRUE),
                                  CommitStep,
                                  SetSnapStep(updatedProject)>>])
                /\ UNCHANGED <<tx, faulted>>
        /\ UNCHANGED <<slice, now, characters, dbProjects, dbAudioBlobs,
                       overlap, exp, nOps, nEdits>>

(***************************************************************************)
(* db.audioBlobs.get of split and merge                                    *)
(***************************************************************************)
\* the ids the call reads: the split line's, or the two merged lines'
idsToGet(op) ==
    LET project == FindProject(op.snap.projects, op.projectId)
        lines == ChapterLines(project, op.chapterId)
        lineIndex == IndexOfId(lines, op.lineId)
    IN  IF op.kind = "split" THEN <<lines[lineIndex].audioBlobId>>
        ELSE IF op.kind = "mergeUp"
        THEN <<lines[lineIndex - 1].audioBlobId, lines[lineIndex].audioBlobId>>
        ELSE <<lines[lineIndex].audioBlobId,
               lines[nextSameCharacterIndex(lines, lineIndex)].audioBlobId>>

opGet(s) ==
    LET op == ops[s]
        ids == idsToGet(op)
    IN  /\ op.pc = "get"
        /\ Served(s)
        /\ IF \A i \in 1..Len(ids) : ids[i] \in DOMAIN dbAudioBlobs
           THEN /\ ops' = [ops EXCEPT ![s] = [op EXCEPT
                       !.pc = "decode",
                       !.got = [i \in 1..Len(ids) |-> dbAudioBlobs[ids[i]].data]]]
                /\ UNCHANGED <<last, tx, faulted>>
           ELSE Fail(s)
        /\ UNCHANGED <<slice, now, characters, projects, dbProjects,
                       dbAudioBlobs, overlap, exp, nOps, nEdits>>

(***************************************************************************)
(* assignAudioToLine, clearAudioFromChapter, handleDeleteAudio             *)
(***************************************************************************)
assignAudioToLine(s, tg) ==
    LET newId == <<"audio", now, nOps + 1>>
        audioBlobEntry == [id |-> newId, lineId |-> tg[3],
                           data |-> Payload(1,
                                        Recorded(0, 1, UploadSamples))]
    IN  /\ CanIssue(s)
        /\ Launch(s, [Begin("assign", tg, "", 0) EXCEPT !.todo =
               <<PutBlobsStep(<<audioBlobEntry>>, FALSE),
                 UpdateLineAudioStep(newId)>>])

\* a clearing that leaves the reference of the last line
clearedLinesButLast(lines) ==
    [i \in 1..Len(lines) |->
        IF i = Len(lines) THEN lines[i] ELSE WithAudio(lines[i], NoAudio)]

\* ch.scriptLines.map(line => ({ ...line, audioBlobId: undefined }))
clearedLines(lines) == [i \in 1..Len(lines) |-> WithAudio(lines[i], NoAudio)]

clearAudioFromChapter(s, tg) ==
    LET project == FindProject(projects, tg[1])
        found == project.id # "" /\ HasChapter(project, tg[2])
        lines == ChapterLines(project, tg[2])
        blobIdsToDelete ==
            SelectSeq([i \in 1..Len(lines) |-> lines[i].audioBlobId],
                      LAMBDA id : id # NoAudio)
        updatedProject ==
            UpdatedProject(project, tg[2], clearedLines(lines), now)
    IN  /\ CanIssue(s)
        /\ tg[3] = ""
        /\ IF ~found THEN Return(Begin("clear", tg, "", 0), "noop")
           ELSE IF blobIdsToDelete = <<>>
                THEN Return(Begin("clear", tg, "", 0), "noop")
           ELSE Launch(s, [Begin("clear", tg, "", 0) EXCEPT
                    !.updatedProject = updatedProject,
                    !.plan = [scriptLines |-> <<>>,
                              blobsToDelete |-> blobIdsToDelete,
                              newBlobs |-> <<>>],
                    !.todo = <<PutProjectStep(updatedProject, TRUE),
                               DeleteStep(blobIdsToDelete, TRUE),
                               CommitStep,
                               SetFnStep(updatedProject)>>])

\* the delete button of a rendered line that has audio
handleDeleteAudio(s, tg) ==
    LET project == FindProject(projects, tg[1])
        found == /\ project.id # ""
                 /\ HasChapter(project, tg[2])
                 /\ HasId(ChapterLines(project, tg[2]), tg[3])
        line == LET lines == ChapterLines(project, tg[2])
                IN  lines[IndexOfId(lines, tg[3])]
    IN  /\ CanIssue(s)
        /\ found
        /\ line.audioBlobId # NoAudio
        /\ Launch(s, [Begin("deleteAudio", tg, "", 0) EXCEPT !.todo =
               <<UpdateLineAudioStep(NoAudio),
                 DeleteStep(<<line.audioBlobId>>, FALSE)>>])

(***************************************************************************)
(* An awaited database step resolves, or rejects; the page is reloaded.    *)
(***************************************************************************)
opStep(s) ==
    LET op == ops[s]
        st == Head(op.todo)
        buffer == IF tx.owner = 0
                  THEN [projects |-> dbProjects, audioBlobs |-> dbAudioBlobs]
                  ELSE [projects |-> tx.projects, audioBlobs |-> tx.audioBlobs]
        direct == ApplyStep([projects |-> dbProjects,
                             audioBlobs |-> dbAudioBlobs], st)
        written == ApplyStep(buffer, st)
        issued == IF st.k = "commit" THEN op.issued
                  ELSE Append(op.issued, st.k)
    IN  /\ op.pc = "steps"
        /\ Served(s)
        /\ IF st.tx
           THEN /\ IF st.k = "commit"
                   THEN /\ dbProjects' = buffer.projects
                        /\ dbAudioBlobs' = buffer.audioBlobs
                        /\ tx' = NoTx
                   ELSE /\ tx' = [owner |-> s, projects |-> written.projects,
                                  audioBlobs |-> written.audioBlobs]
                        /\ UNCHANGED <<dbProjects, dbAudioBlobs>>
           ELSE /\ dbProjects' = direct.projects
                /\ dbAudioBlobs' = direct.audioBlobs
                /\ UNCHANGED tx
        /\ Advance(s, [op EXCEPT !.todo = Tail(op.todo), !.issued = issued])
        /\ UNCHANGED <<slice, now, characters, overlap, exp,
                       nOps, nEdits, faulted>>

\* db.audioBlobs.get, the decoder or a database write rejects
opThrow(s) ==
    /\ ops[s].pc \in {"get", "decode", "steps"}
    /\ Fail(s)
    /\ UNCHANGED <<slice, now, characters, projects, dbProjects, dbAudioBlobs,
                   overlap, exp, nOps, nEdits>>

\* the page is closed while a call is in flight and the application is
\* loaded again: an open transaction is aborted, the store is rebuilt from
\* the database
Crash ==
    /\ \E s \in Slots : ops[s].pc # "idle"
    /\ projects' = loadProjects(dbProjects)
    /\ ops' = [s \in Slots |-> IdleOp]
    /\ tx' = NoTx
    /\ last' = [kind |-> "reload", result |-> "none",
                op |-> ops[CHOOSE s \in Slots : ops[s].pc # "idle"]]
    /\ faulted' = TRUE
    /\ UNCHANGED <<slice, now, characters, dbProjects, dbAudioBlobs, overlap,
                   exp, nOps, nEdits>>

Tick ==
    /\ Active
    /\ now < MaxNow
    /\ now' = now + 1
    /\ UNCHANGED <<slice, characters, projects, dbProjects, dbAudioBlobs, tx,
                   ops, overlap, exp, nOps, nEdits, last, faulted>>


(***************************************************************************)
(* The character store and the script editor.                              *)
(***************************************************************************)
\* number of characters the store holds at most
MaxChars == 5

\* the ids Date.now() + "_char_" + Math.random() gives to new characters
NewCharIds == <<"cN1", "cN2", "cN3">>

\* addCharacter({name, cvName: ''}, projectId)
addCharacter(name, projectId) ==
    LET existingByName ==
            \E i \in 1..Len(characters) :
                /\ characters[i].name = name
                /\ characters[i].projectId = projectId
        finalCharacter ==
            [id |-> NewCharIds[Len(characters) + 1 - Len(InitCharacters)],
             name |-> name, cvName |-> "", projectId |-> projectId]
    IN  /\ Active
        /\ Len(characters) < MaxChars
        /\ Len(characters) - Len(InitCharacters) < Len(NewCharIds)
        /\ ~existingByName
        /\ characters' = Append(characters, finalCharacter)
        /\ UNCHANGED <<slice, now, projects, dbProjects, dbAudioBlobs, tx, ops,
                       overlap, exp, nOps, nEdits, last, faulted>>

\* the updater of handleAssignCharacterToLine: the new line array
assignCharacterLines(lines, lineIndex, newCharacterId, chars) ==
    LET narratorId ==
            LET I == {i \in 1..Len(chars) : chars[i].name = "Narrator"}
            IN  IF I = {} THEN NoChar ELSE chars[SetMin(I)].id
        currentLine == lines[lineIndex]
        hasPrev == lineIndex > 1
        hasNext == lineIndex < Len(lines)
        isPrevNarrator ==
            IF hasPrev THEN lines[lineIndex - 1].characterId = narratorId
            ELSE narratorId = NoChar
        isNextNarrator ==
            IF hasNext THEN lines[lineIndex + 1].characterId = narratorId
            ELSE narratorId = NoChar
        reassigned == [currentLine EXCEPT !.characterId = newCharacterId]
    IN  IF newCharacterId = narratorId
        THEN IF isPrevNarrator /\ isNextNarrator
             THEN SelectSeq(
                      [lines EXCEPT ![lineIndex - 1].text =
                          @ \o currentLine.text \o lines[lineIndex + 1].text],
                      LAMBDA l : l.id # currentLine.id
                                 /\ l.id # lines[lineIndex + 1].id)
             ELSE IF isPrevNarrator
             THEN SelectSeq(
                      [lines EXCEPT ![lineIndex - 1].text =
                          @ \o currentLine.text],
                      LAMBDA l : l.id # currentLine.id)
             ELSE IF isNextNarrator
             THEN SelectSeq(
                      [lines EXCEPT ![lineIndex] =
                          [reassigned EXCEPT !.text =
                              @ \o lines[lineIndex + 1].text]],
                      LAMBDA l : l.id # lines[lineIndex + 1].id)
             ELSE [lines EXCEPT ![lineIndex] = reassigned]
        ELSE [lines EXCEPT ![lineIndex] = reassigned]

\* the lines the editor reassigns in the model
EditTargets == {<<"p1", "ch1", "L3">>}

\* handleAssignCharacterToLine on the open project, stored by updateProject
handleAssignCharacterToLine(tg, newCharacterId) ==
    LET project == FindProject(projects, tg[1])
        lines == ChapterLines(project, tg[2])
        lineIndex == IndexOfId(lines, tg[3])
        projectWithTimestamp ==
            UpdatedProject(project, tg[2],
                assignCharacterLines(lines, lineIndex, newCharacterId,
                                     characters), now)
    IN  /\ Active
        /\ nEdits < MaxEdits
        /\ \A s \in Slots : ops[s].pc = "idle"
        /\ FindCharacter(characters, newCharacterId).id # NoChar
        /\ project.id # ""
        /\ HasChapter(project, tg[2])
        /\ lineIndex # 0
        /\ dbProjects' = putProject(dbProjects, projectWithTimestamp)
        /\ projects' = SortByLastModified(
                           MapProject(projects, tg[1], projectWithTimestamp))
        /\ nEdits' = nEdits + 1
        /\ last' = [kind |-> "edit", result |-> "ok", op |-> IdleOp]
        /\ UNCHANGED <<slice, now, characters, dbAudioBlobs, tx, ops, overlap,
                       exp, nOps, faulted>>

(***************************************************************************)
(* Next-state relation.                                                    *)
(***************************************************************************)
\* the sample positions splits are requested at
SplitSamples == 0..(UploadSamples + 1)

ClearTargets == {<<"p1", "ch1", "">>, <<"p1", "ch2", "">>, <<"zz", "ch1", "">>}

Next ==
    \/ \E s \in Slots, tg \in Targets, mode \in ShiftModes :
          \/ \E splitSample \in SplitSamples :
                splitAndShiftAudio(s, tg, splitSample, mode)
          \/ shiftAudioDown(s, tg, mode)
          \/ shiftAudioUp(s, tg, mode)
          \/ mergeWithNextAndShift(s, tg, mode)
          \/ mergeAudioUp(s, tg, mode)
    \/ \E s \in Slots, tg \in Targets :
          \/ assignAudioToLine(s, tg)
          \/ handleDeleteAudio(s, tg)
    \/ \E s \in Slots, tg \in ClearTargets : clearAudioFromChapter(s, tg)
    \/ \E s \in Slots :
          \/ opGet(s)
          \/ splitDecoded(s)
          \/ mergeDecoded(s)
          \/ mergeUpDecoded(s)
          \/ opStep(s)
          \/ opThrow(s)
    \/ Crash
    \/ Tick
    \/ \E name \in {SilentName} : addCharacter(name, "p1")
    \/ \E tg \in EditTargets, c \in {"cSil", "cNar", "cN1"} :
          handleAssignCharacterToLine(tg, c)

Spec == Init /\ [][Next]_vars

(***************************************************************************)
(* Two timeline operations, the second issued while the first is in       *)
(* flight or after it.                                                     *)
(***************************************************************************)
\* the revision with calculateShiftChain, whose calls write copies: the
\* older one shares its arrays with the store between calls in flight
InitOverlap == InitWith(TRUE) /\ slice = "part_003"

\* the lines the overlapping calls are issued on, and their one mode
OverlapTargets ==
    {<<"p1", "ch1", "L1">>, <<"p1", "ch2", "M2">>, <<"p2", "ch3", "N1">>}

OverlapMode == "chapter"

NextOverlap ==
    \/ \E s \in Slots, tg \in OverlapTargets :
          \/ splitAndShiftAudio(s, tg, 1, OverlapMode)
          \/ shiftAudioDown(s, tg, OverlapMode)
          \/ shiftAudioUp(s, tg, OverlapMode)
          \/ mergeWithNextAndShift(s, tg, OverlapMode)
    \/ \E s \in Slots :
          \/ opGet(s)
          \/ splitDecoded(s)
          \/ mergeDecoded(s)
          \/ opStep(s)
          \/ opThrow(s)

SpecOverlap == InitOverlap /\ [][NextOverlap]_vars

(***************************************************************************)
(* exportAudioWithMarkers: the decodes of Promise.all settle in any order, *)
(* the buffers are processed one await after the other, the file is        *)
(* assembled and the context is closed.                                    *)
(***************************************************************************)
\* the number of samples of the longer recordings that are exported
ExportSamples == 2

\* the length of the lists made of every choice of recordings
MaxPairs == 2

\* the length of the longest list that is exported
MaxCues == 10

\* the recordings the lists are made of: two mono ones at the target rate, a
\* stereo one, one at half the target rate and a Blob that is not audio
ExportAssets ==
    <<Payload(TARGET_SAMPLE_RATE, Recorded(1, 1, ExportSamples)),
      Payload(TARGET_SAMPLE_RATE, Recorded(2, 1, ExportSamples - 1)),
      Payload(TARGET_SAMPLE_RATE, Recorded(3, 2, ExportSamples)),
      Payload(TARGET_SAMPLE_RATE \div 2, Recorded(4, 1, ExportSamples - 1)),
      Undecodable>>

LinesWithAudio(takes) ==
    [i \in 1..Len(takes) |->
        [line |-> <<"line", i>>, audioBlob |-> ExportAssets[takes[i]]]]

ExportInputs ==
    {LinesWithAudio(takes) :
        takes \in UNION {[1..n -> 1..Len(ExportAssets)] : n \in 0..MaxPairs}}
    \cup {LinesWithAudio([i \in 1..n |-> ((i - 1) % 4) + 1]) :
             n \in (MaxPairs + 1)..MaxCues}

\* the sample rate of the AudioContext the browser creates
ContextRates == {TARGET_SAMPLE_RATE, 48000}

\* the buffers land in the order the decodes settle in
collectAsSettled(decodedBuffers, i, buffer) ==
    LET free == {j \in 1..Len(decodedBuffers) : decodedBuffers[j] = NoBuffer}
    IN  [decodedBuffers EXCEPT ![SetMin(free)] = buffer]

\* Promise.all: the value of promise i is element i of the result
collect(decodedBuffers, i, buffer) == [decodedBuffers EXCEPT ![i] = buffer]

\* the file holds the segments in reverse when a decode overtook another
finishBySettling(e) ==
    LET pcm == IF e.outOfOrder THEN Reverse(e.processedPcmData)
               ELSE e.processedPcmData
        file == assemble(pcm, e.cues.cuePoints)
    IN  [e EXCEPT !.pc = "close",
                  !.result = [kind |-> "blob", bytes |-> file.bytes,
                              error |-> <<>>]]

\* the loop is over: the file is assembled, return runs the finally block
finish(e) ==
    LET file == assemble(e.processedPcmData, e.cues.cuePoints)
    IN  [e EXCEPT !.pc = "close",
                  !.result = IF file.ok
                             THEN [kind |-> "blob", bytes |-> file.bytes,
                                   error |-> <<>>]
                             ELSE [kind |-> "error", bytes |-> <<>>,
                                   error |-> [name |-> "RangeError"]]]

exportAudioWithMarkers(linesWithAudio, sampleRate) ==
    /\ exp = NoExport
    /\ exp' = [NoExport EXCEPT
                  !.pc = IF linesWithAudio = <<>> THEN "process" ELSE "decode",
                  !.linesWithAudio = linesWithAudio,
                  !.sampleRate = sampleRate,
                  !.settled = [i \in 1..Len(linesWithAudio) |-> "pending"],
                  !.decodedBuffers =
                      [i \in 1..Len(linesWithAudio) |-> NoBuffer]]
    /\ UNCHANGED storeVars

\* arrayBuffer().then(ab => audioContext.decodeAudioData(ab)) of pair i
\* settles; Promise.all rejects with the first rejection
decodeSettles(i) ==
    LET audioBlob == exp.linesWithAudio[i].audioBlob
        \* the decode of an earlier pair has not settled yet
        overtakes == \E j \in 1..(i - 1) : exp.settled[j] = "pending"
    IN  /\ exp.pc = "decode"
        /\ i \in 1..Len(exp.linesWithAudio)
        /\ exp.settled[i] = "pending"
        /\ IF audioBlob = Undecodable
           THEN exp' = [exp EXCEPT
                           !.pc = "close",
                           !.settled[i] = "rejected",
                           !.outOfOrder = @ \/ overtakes,
                           !.result = [kind |-> "error", bytes |-> <<>>,
                                       error |-> EncodingError]]
           ELSE LET settled == [exp.settled EXCEPT ![i] = "fulfilled"]
                IN  exp' = [exp EXCEPT
                        !.pc = IF \A j \in 1..Len(settled) :
                                     settled[j] = "fulfilled"
                               THEN "process" ELSE "decode",
                        !.settled = settled,
                        !.outOfOrder = @ \/ overtakes,
                        !.decodedBuffers =
                            collect(@, i,
                                    decodeAudioDataAt(audioBlob,
                                                      exp.sampleRate))]
        /\ UNCHANGED storeVars

\* one pass of the loop: await processAudioBuffer(buffer)
processNext ==
    LET k == Len(exp.processedPcmData) + 1
        pcm == processAudioBuffer(exp.decodedBuffers[k])
        e == [exp EXCEPT !.cues = pushCue(@, Len(pcm)),
                         !.processedPcmData = Append(@, pcm)]
    IN  /\ exp.pc = "process"
        /\ exp' = IF exp.linesWithAudio = <<>> THEN finish(exp)
                  ELSE IF k = Len(exp.linesWithAudio) THEN finish(e)
                  ELSE e
        /\ UNCHANGED storeVars

\* finally { await audioContext.close() }: the promise of the call settles
closeContext ==
    /\ exp.pc = "close"
    /\ exp' = [exp EXCEPT !.pc = "done", !.closed = TRUE]
    /\ UNCHANGED storeVars

InitExport == InitWith(FALSE)

NextExport ==
    \/ \E linesWithAudio \in ExportInputs, sampleRate \in ContextRates :
          exportAudioWithMarkers(linesWithAudio, sampleRate)
    \/ \E i \in 1..MaxCues : decodeSettles(i)
    \/ processNext
    \/ closeContext

SpecExport == InitExport /\ [][NextExport]_vars

(***************************************************************************)
(* The line edits of the script editor (useScriptLineEditor.ts) and the    *)
(* deletion of chapters (EditorPage.tsx), each stored by updateProject,    *)
(* next to the timeline operations.                                        *)
(***************************************************************************)
\* the updater of handleSplitScriptLine: the line is replaced by its
\* non-empty parts, each a copy of the line with a new id and its part of
\* the text
splitScriptLine(lines, lineId, splitIndex) ==
    LET parts(line) ==
            LET at == IF splitIndex > Len(line.text) THEN Len(line.text)
                      ELSE splitIndex
                part1 == SubSeq(line.text, 1, at)
                part2 == SubSeq(line.text, at + 1, Len(line.text))
            IN  (IF part1 # <<>>
                 THEN <<[line EXCEPT !.id = line.id \o "_split_1",
                                     !.text = part1]>>
                 ELSE <<>>)
                \o (IF part2 # <<>>
                    THEN <<[line EXCEPT !.id = line.id \o "_split_2",
                                        !.text = part2]>>
                    ELSE <<>>)
        RECURSIVE from(_)
        from(i) ==
            IF i > Len(lines) THEN <<>>
            ELSE (IF lines[i].id = lineId THEN parts(lines[i])
                  ELSE <<lines[i]>>) \o from(i + 1)
    IN  from(1)

\* text.join('\n') of the lines first..last
RECURSIVE joinedText(_, _, _)
joinedText(lines, first, end) ==
    IF first = end THEN lines[first].text
    ELSE lines[first].text \o <<"\n">> \o joinedText(lines, first + 1, end)

\* the updater of handleMergeAdjacentLines: the run of adjacent lines of the
\* character of the line becomes its first line with the joined text
mergeAdjacentLines(lines, lineIndex) ==
    LET characterId == lines[lineIndex].characterId
        firstLineIndex ==
            SetMin({i \in 1..lineIndex :
                       \A j \in i..lineIndex : lines[j].characterId = characterId})
        lastLineIndex ==
            firstLineIndex - 1 +
            Cardinality({i \in firstLineIndex..Len(lines) :
                \A j \in firstLineIndex..i :
                    lines[j].characterId = characterId})
        mergedLine == [lines[firstLineIndex] EXCEPT
                          !.text = joinedText(lines, firstLineIndex,
                                              lastLineIndex)]
    IN  IF characterId = NoChar \/ firstLineIndex = lastLineIndex THEN lines
        ELSE SubSeq(lines, 1, firstLineIndex - 1) \o <<mergedLine>>
             \o SubSeq(lines, lastLineIndex + 1, Len(lines))

\* applyUndoableProjectUpdate: the updated project is stored by updateProject
applyUndoableProjectUpdate(project) ==
    LET projectWithTimestamp == [project EXCEPT !.lastModified = now]
    IN  /\ nEdits < MaxEdits
        /\ \A s \in Slots : ops[s].pc = "idle"
        /\ dbProjects' = putProject(dbProjects, projectWithTimestamp)
        /\ projects' = SortByLastModified(
                           MapProject(projects, project.id,
                                      projectWithTimestamp))
        /\ nEdits' = nEdits + 1
        /\ UNCHANGED <<slice, now, characters, dbAudioBlobs, tx, ops, overlap,
                       exp, nOps, faulted>>

handleSplitScriptLine(tg, splitIndex) ==
    LET project == FindProject(projects, tg[1])
        lines == ChapterLines(project, tg[2])
    IN  /\ project.id # ""
        /\ HasChapter(project, tg[2])
        /\ HasId(lines, tg[3])
        /\ applyUndoableProjectUpdate(
               WithChapterLines(project, tg[2],
                                splitScriptLine(lines, tg[3], splitIndex)))
        /\ last' = [kind |-> "splitLine", result |-> "ok",
                    op |-> [IdleOp EXCEPT !.projectId = tg[1],
                                          !.chapterId = tg[2],
                                          !.lineId = tg[3],
                                          !.preProjects = projects]]

handleMergeAdjacentLines(tg) ==
    LET project == FindProject(projects, tg[1])
        lines == ChapterLines(project, tg[2])
    IN  /\ project.id # ""
        /\ HasChapter(project, tg[2])
        /\ HasId(lines, tg[3])
        /\ applyUndoableProjectUpdate(
               WithChapterLines(project, tg[2],
                   mergeAdjacentLines(lines, IndexOfId(lines, tg[3]))))
        /\ last' = [kind |-> "mergeLines", result |-> "ok",
                    op |-> [IdleOp EXCEPT !.projectId = tg[1],
                                          !.chapterId = tg[2],
                                          !.lineId = tg[3],
                                          !.preProjects = projects]]

undoableDeleteChapters(projectId, chapterIds) ==
    LET project == FindProject(projects, projectId)
    IN  /\ project.id # ""
        /\ applyUndoableProjectUpdate(
               [project EXCEPT !.chapters =
                   SelectSeq(@, LAMBDA ch : ch.id \notin chapterIds)])
        /\ last' = [kind |-> "deleteChapters", result |-> "ok",
                    op |-> [IdleOp EXCEPT !.projectId = projectId,
                                          !.preProjects = projects]]

\* the lines the editor and the timeline operations work on, and the one
\* filter mode
EditorTargets ==
    {<<"p1", "ch1", "L1">>, <<"p1", "ch1", "L2">>, <<"p1", "ch1", "L3">>}

EditorMode == "chapter"

InitEditor == InitWith(FALSE)

NextEditor ==
    \/ \E s \in Slots, tg \in EditorTargets :
          \/ splitAndShiftAudio(s, tg, 1, EditorMode)
          \/ shiftAudioDown(s, tg, EditorMode)
          \/ shiftAudioUp(s, tg, EditorMode)
          \/ mergeWithNextAndShift(s, tg, EditorMode)
    \/ \E s \in Slots :
          \/ opGet(s)
          \/ splitDecoded(s)
          \/ mergeDecoded(s)
          \/ opStep(s)
    \/ \E tg \in EditorTargets :
          \/ \E c \in {"cNar", "cX"} : handleAssignCharacterToLine(tg, c)
          \/ \E splitIndex \in 0..2 : handleSplitScriptLine(tg, splitIndex)
          \/ handleMergeAdjacentLines(tg)
    \/ undoableDeleteChapters("p1", {"ch2"})

SpecEditor == InitEditor /\ [][NextEditor]_vars

(***************************************************************************)
(* clearAudioFromChapter on its own, from the stores of Init and from a    *)
(* store whose chapter ch1 has no recording yet.                           *)
(***************************************************************************)
\* a chapter as it is after the script was imported and before any upload
UnrecordedLayout ==
    [lines |-> <<Line("L1", "cX", 0), Line("L2", "cNar", 0)>>, stereo |-> {}]

InitClear ==
    /\ slice \in Slices
    /\ now = 1
    /\ characters = InitCharacters
    /\ \E layout \in Layouts \cup {UnrecordedLayout} :
          /\ dbProjects = InitProjects(layout.lines)
          /\ projects = loadProjects(InitProjects(layout.lines))
          /\ dbAudioBlobs = InitBlobs(loadProjects(InitProjects(layout.lines)),
                                      layout.stereo)
    /\ tx = NoTx
    /\ ops = [s \in Slots |-> IdleOp]
    /\ overlap = FALSE
    /\ exp = NoExport
    /\ nOps = 0
    /\ nEdits = 0
    /\ last = [kind |-> "none", result |-> "none", op |-> IdleOp]
    /\ faulted = FALSE

NextClear ==
    \/ \E s \in Slots, tg \in ClearTargets : clearAudioFromChapter(s, tg)
    \/ \E s \in Slots :
          \/ opStep(s)
          \/ opThrow(s)
    \/ Tick

SpecClear == InitClear /\ [][NextClear]_vars


(***************************************************************************)
(* Properties.                                                             *)
(***************************************************************************)
\* no call is in flight
AllIdle == \A s \in Slots : ops[s].pc = "idle"

\* the timeline operations
TimelineKinds == {"split", "shiftDown", "shiftUp", "merge"}

\* the asset ids the stored projects reference
PersistedReferences == ReferencedIn(TableRows(dbProjects))

\* only splitAndShiftAudio, shiftAudioDown, shiftAudioUp,
\* mergeWithNextAndShift, assignAudioToLine and clearAudioFromChapter have
\* run, and every one of them committed
OnlyCommittedCalls ==
    /\ AllIdle
    /\ ~faulted
    /\ nEdits = 0
    /\ characters = InitCharacters
    /\ last.kind \in TimelineKinds \cup {"assign", "clear", "none"}

\* C1: in every state reached by committed split, shift down, shift up,
\* merge, assign and clear calls from a state without dangling references,
\* every audioBlobId set on a line names an asset present in db.audioBlobs.
NoDanglingReference ==
    OnlyCommittedCalls =>
        /\ ReferencedIn(projects) \subseteq DOMAIN dbAudioBlobs
        /\ PersistedReferences \subseteq DOMAIN dbAudioBlobs

\* C2: after a successful split, shift down, shift up or merge, every asset
\* a line referenced before the call and no line references after it is gone
\* from db.audioBlobs, and a store without unreferenced assets stays so.
NoOrphanAfterTimelineEdit ==
    (AllIdle /\ last.kind \in TimelineKinds /\ last.result = "ok") =>
        /\ \A id \in ReferencedIn(last.op.preProjects) \ ReferencedIn(projects) :
              id \notin DOMAIN dbAudioBlobs
        /\ (DOMAIN last.op.preBlobs \subseteq ReferencedIn(last.op.preProjects))
              => (DOMAIN dbAudioBlobs \subseteq ReferencedIn(projects))

\* C3: when a timeline operation fails (an asset row is missing, the decoder
\* or the cut throws, a database write rejects), db.projects and
\* db.audioBlobs are what they were before the call.
PersistedUntouchedOnFailure ==
    (AllIdle /\ last.kind \in TimelineKinds /\ last.result = "error") =>
        /\ dbProjects = last.op.preDbProjects
        /\ dbAudioBlobs = last.op.preBlobs

\* the place of a database write in the prescribed order: asset payloads,
\* then the project, then the deletions
StepRank(k) ==
    CASE k = "bulkPut" -> 1
      [] k = "putProject" -> 2
      [] k = "bulkDelete" -> 3
      [] OTHER -> 0

InCommitOrder(issued) ==
    \A i, j \in 1..Len(issued) :
        i < j => StepRank(issued[i]) <= StepRank(issued[j])

\* C4: every timeline operation issues its database writes in the order new
\* asset payloads, then the project, then the deletions of assets.
CommitOrdering ==
    /\ \A s \in Slots :
          ops[s].kind \in TimelineKinds => InCommitOrder(ops[s].issued)
    /\ last.kind \in TimelineKinds => InCommitOrder(last.op.issued)

\* the operations that remove or replace the audio of a line
RemovingKinds == TimelineKinds \cup {"deleteAudio", "clear"}

\* C5: when the page goes away between two database writes of an operation
\* that removes or replaces audio, the stored projects reference no asset
\* that db.audioBlobs lacks.
CrashSafety ==
    (/\ last.kind = "reload"
     /\ last.op.kind \in RemovingKinds
     /\ last.op.issued # <<>>
     /\ ReferencedIn(TableRows(last.op.preDbProjects))
            \subseteq DOMAIN last.op.preBlobs)
    => PersistedReferences \subseteq DOMAIN dbAudioBlobs

\* C6: once a timeline operation has returned, with or without an error, the
\* project list of the store holds the stored projects; and while the
\* operation runs the project list is the one it started with.
MemoryMatchesPersisted ==
    /\ (/\ AllIdle
        /\ last.kind \in TimelineKinds
        /\ last.result # "none"
        /\ SeqToSet(last.op.preProjects)
              = SeqToSet(TableRows(last.op.preDbProjects)))
       => SeqToSet(projects) = SeqToSet(TableRows(dbProjects))
    /\ \A s \in Slots :
          (ops[s].pc # "idle" /\ ops[s].kind \in TimelineKinds)
              => projects = ops[s].preProjects

\* the calls that have computed their shift chain: those in flight and the
\* one that finished last
ChainCalls ==
    {ops[s] : s \in {t \in Slots : ops[t].chained}}
    \cup (IF last.op.chained THEN {last.op} ELSE {})

\* the lines of the chapter a call was issued on, as they were at the call
PreLines(op) ==
    ChapterLines(FindProject(op.preProjects, op.projectId), op.chapterId)

\* the index a call computes its chain from, and the anchor it passes
ChainStart(op) ==
    LET lines == PreLines(op)
        i == IndexOfId(lines, op.lineId)
    IN  CASE op.kind = "split" -> i + 1
          [] op.kind = "merge" -> nextSameCharacterIndex(lines, i) + 1
          [] OTHER -> i

ChainAnchor(op) ==
    PreLines(op)[IndexOfId(PreLines(op), op.lineId)].characterId

\* C7: whatever characters the store holds, the shift chain of a split, shift
\* down, shift up or merge has no line whose character is named '[静音]'.
ChainHasNoSilentLine ==
    \A op \in ChainCalls :
        \A k \in 1..Len(op.chain) :
            FindCharacter(op.snap.characters,
                          PreLines(op)[op.chain[k]].characterId).name
                # SilentName

\* the chain as it is described: the lines at or after start, in chapter
\* order, whose character is not named '[静音]' and that satisfy the mode
DescribedChain(lines, start, mode, chars, anchorId) ==
    LET anchor == FindCharacter(chars, anchorId)
        role(i) == FindCharacter(chars, lines[i].characterId)
        member(i) ==
            /\ i >= start
            /\ role(i).name # SilentName
            /\ CASE mode = "chapter" -> TRUE
                 [] mode = "character" -> lines[i].characterId = anchorId
                 [] mode = "cv" -> /\ anchor.cvName # ""
                                   /\ role(i).cvName = anchor.cvName
                 [] OTHER -> FALSE
    IN  SelectSeq(Indices(lines), member)

\* C8: the chain a call computes is exactly the described one: the non-silent
\* lines at or after the start index that satisfy the mode for the character
\* of the target line, in chapter order, each once.
ChainIsDescribedChain ==
    \A op \in ChainCalls :
        op.chain = DescribedChain(PreLines(op), ChainStart(op), op.mode,
                                  op.snap.characters, ChainAnchor(op))

\* the lines of the chapter of a call as the store holds them now, and as
\* db.projects holds them
PostLines(op) ==
    ChapterLines(FindProject(projects, op.projectId), op.chapterId)

StoredLines(op) == ChapterLines(dbProjects[op.projectId], op.chapterId)

\* every chapter of a project list with its lines, the chapter of op left out
OtherChapters(projs, op) ==
    UNION {{<<p.id, c.id, c.scriptLines>> : c \in SeqToSet(p.chapters)} :
              p \in SeqToSet(projs)}
    \ {<<op.projectId, op.chapterId, ChapterLines(
            FindProject(projs, op.projectId), op.chapterId)>>}

\* the assets a call removed from db.audioBlobs
Deleted(op) == DOMAIN op.preBlobs \ DOMAIN dbAudioBlobs

\* calls are issued one at a time: none while another is in flight
OneAtATime == ~overlap

\* the call that returned last ran alone, and nothing has run since
Returned(kind) == AllIdle /\ OneAtATime /\ last.kind = kind

\* a shiftAudioDown has just finished without an error
ShiftedDown == Returned("shiftDown") /\ last.result = "ok"

\* C9: with calls issued one at a time, after a successful shiftAudioDown with
\* a chain c0..cn, n >= 1, every ci with i >= 1 holds what c(i-1) held, c0
\* holds nothing, the only asset deleted is the one cn held, and the lines
\* outside the chain keep theirs.
ShiftDownRipples ==
    (ShiftedDown /\ Len(last.op.chain) >= 2) =>
        LET op == last.op
            c == op.chain
            n == Len(c)
            pre == PreLines(op)
            post == PostLines(op)
        IN  /\ Len(post) = Len(pre)
            /\ StoredLines(op) = post
            /\ \A i \in 2..n :
                  post[c[i]].audioBlobId = pre[c[i - 1]].audioBlobId
            /\ post[c[1]].audioBlobId = NoAudio
            /\ \A j \in 1..Len(pre) :
                  (\A i \in 1..n : c[i] # j) => post[j] = pre[j]
            /\ Deleted(op) = ({pre[c[n]].audioBlobId} \ {NoAudio})
                                \cap DOMAIN op.preBlobs
            /\ DOMAIN dbAudioBlobs \subseteq DOMAIN op.preBlobs

\* the scenario of C9: chain [L2(a1), L3(none), L4(a2)] in Character mode
\* ends with L2 empty, L3 = a1, L4 empty, a2 deleted and L1 untouched
ShiftDownRipplesScenario ==
    /\ ShiftedDown
    /\ last.op.lineId = "L2"
    /\ last.op.mode = "character"
    /\ last.op.chain = <<2, 3, 4>>
    /\ [i \in 1..4 |-> PreLines(last.op)[i].audioBlobId]
          = <<InitialBlobId(1), InitialBlobId(2), NoAudio, InitialBlobId(4)>>
    /\ [i \in 1..4 |-> PostLines(last.op)[i].audioBlobId]
          = <<InitialBlobId(1), NoAudio, InitialBlobId(2), NoAudio>>
    /\ Deleted(last.op) = {InitialBlobId(4)}

\* C10: a shiftAudioDown whose chain has exactly one member clears the
\* reference of that line and deletes exactly that asset; no other line and
\* no other asset changes.
SingleMemberShiftDown ==
    (ShiftedDown /\ Len(last.op.chain) = 1) =>
        LET op == last.op
            member == op.chain[1]
            pre == PreLines(op)
        IN  /\ PostLines(op) = [pre EXCEPT ![member] = WithAudio(@, NoAudio)]
            /\ StoredLines(op) = PostLines(op)
            /\ OtherChapters(projects, op)
                  = OtherChapters(op.preProjects, op)
            /\ DOMAIN dbAudioBlobs
                  = DOMAIN op.preBlobs \ {pre[member].audioBlobId}

\* a shiftAudioUp has just finished without an error
ShiftedUp == Returned("shiftUp") /\ last.result = "ok"

\* C11: with calls issued one at a time, after a successful shiftAudioUp with a
\* chain c0..cn, n >= 1, every ci with i < n holds the reference (possibly
\* none) c(i+1) held before the call, cn holds none, and the only asset deleted
\* is the one c0 held.
ShiftUpRipples ==
    (ShiftedUp /\ Len(last.op.chain) >= 2) =>
        LET op == last.op
            c == op.chain
            n == Len(c)
            pre == PreLines(op)
            post == PostLines(op)
        IN  /\ Len(post) = Len(pre)
            /\ StoredLines(op) = post
            /\ \A i \in 1..(n - 1) :
                  post[c[i]].audioBlobId = pre[c[i + 1]].audioBlobId
            /\ post[c[n]].audioBlobId = NoAudio
            /\ Deleted(op) = ({pre[c[1]].audioBlobId} \ {NoAudio})
                                \cap DOMAIN op.preBlobs
            /\ DOMAIN dbAudioBlobs \subseteq DOMAIN op.preBlobs

\* a shiftAudioUp on the chain [L2(a2), L3(none), L4(a4)]: L2 ends empty like
\* L3 was, L3 holds a4, L4 is cleared and a2 is deleted
ShiftUpRipplesScenario ==
    /\ ShiftedUp
    /\ last.op.chain = <<2, 3, 4>>
    /\ [i \in 1..4 |-> PreLines(last.op)[i].audioBlobId]
          = <<InitialBlobId(1), InitialBlobId(2), NoAudio, InitialBlobId(4)>>
    /\ [i \in 1..4 |-> PostLines(last.op)[i].audioBlobId]
          = <<InitialBlobId(1), NoAudio, InitialBlobId(4), NoAudio>>
    /\ Deleted(last.op) = {InitialBlobId(2)}

\* the chain of a call as it is described, from the state the call read
DescribedChainOf(op) ==
    DescribedChain(PreLines(op), ChainStart(op), op.mode, op.snap.characters,
                   ChainAnchor(op))

\* the store and the tables are what they were when the call was issued
NothingChanged(op) ==
    /\ projects = op.preProjects
    /\ characters = op.snap.characters
    /\ dbProjects = op.preDbProjects
    /\ dbAudioBlobs = op.preBlobs

\* the project list and the tables are what they were when the call was
\* issued, and no write of the call waits in a transaction
ProjectsAndAssetsAsBefore(op) ==
    /\ projects = op.preProjects
    /\ dbProjects = op.preDbProjects
    /\ dbAudioBlobs = op.preBlobs
    /\ tx = NoTx

\* C12: a shiftAudioUp whose chain from the start line, as the chain is
\* described, has fewer than two members ends with the "last line" alert and
\* leaves the store, db.projects and db.audioBlobs as they were.
ShiftUpRejectsShortChain ==
    /\ \A s \in Slots :
          (ops[s].pc # "idle" /\ ops[s].kind = "shiftUp")
              => Len(DescribedChainOf(ops[s])) >= 2
    /\ (/\ last.kind = "shiftUp"
        /\ last.op.chained
        /\ Len(DescribedChainOf(last.op)) < 2)
       => (last.result = "alert" /\ NothingChanged(last.op))

\* a splitAndShiftAudio has just finished without an error
SplitDone == Returned("split") /\ last.result = "ok"

\* the index of the line a call was issued on
TargetIndex(op) == IndexOfId(PreLines(op), op.lineId)

\* the assets a call added to db.audioBlobs
Created(op) == DOMAIN dbAudioBlobs \ DOMAIN op.preBlobs

\* C13: with calls issued one at a time, after a successful splitAndShiftAudio
\* with a chain c0..cn that is not empty, the split line references a new head
\* asset, c0 a new tail asset, every ci with i >= 1 holds what c(i-1) held, and
\* the asset cn held and the asset that was cut are deleted.
SplitRipples ==
    (SplitDone /\ Len(last.op.chain) >= 1) =>
        LET op == last.op
            c == op.chain
            n == Len(c)
            pre == PreLines(op)
            post == PostLines(op)
            li == TargetIndex(op)
            head == post[li].audioBlobId
            tail == post[c[1]].audioBlobId
        IN  /\ Len(post) = Len(pre)
            /\ StoredLines(op) = post
            /\ head # tail
            /\ Created(op) = {head, tail}
            /\ \A i \in 2..n :
                  post[c[i]].audioBlobId = pre[c[i - 1]].audioBlobId
            /\ pre[c[n]].audioBlobId \notin DOMAIN dbAudioBlobs
            /\ pre[li].audioBlobId \notin DOMAIN dbAudioBlobs
            /\ Deleted(op) = ({pre[li].audioBlobId, pre[c[n]].audioBlobId}
                                 \ {NoAudio}) \cap DOMAIN op.preBlobs

\* a split of L2 with the chain [L3(none), L4(a4)]: L2 holds the head, L3 the
\* tail, L4 what L3 held (none), and a2 and a4 are deleted
SplitRipplesScenario ==
    /\ SplitDone
    /\ last.op.lineId = "L2"
    /\ last.op.chain = <<3, 4>>
    /\ [i \in 1..4 |-> PreLines(last.op)[i].audioBlobId]
          = <<InitialBlobId(1), InitialBlobId(2), NoAudio, InitialBlobId(4)>>
    /\ PostLines(last.op)[1].audioBlobId = InitialBlobId(1)
    /\ PostLines(last.op)[4].audioBlobId = NoAudio
    /\ Created(last.op) = {PostLines(last.op)[2].audioBlobId,
                           PostLines(last.op)[3].audioBlobId}
    /\ Deleted(last.op) = {InitialBlobId(2), InitialBlobId(4)}

\* the asset rows a call has written so far that db.audioBlobs did not hold
\* when it was issued, committed or still in its transaction
WrittenBy(s) ==
    ((IF tx.owner = s THEN DOMAIN tx.audioBlobs ELSE {})
        \cup DOMAIN dbAudioBlobs) \ DOMAIN ops[s].preBlobs

\* C14: with calls issued one at a time, when the chain after the split line is
\* empty, splitAndShiftAudio writes one asset row at most, the head; when it is
\* done the split line references that new asset, every other line is as it
\* was, and the asset that was cut is the only one deleted.
SplitEmptyChainStoresHead ==
    /\ \A s \in Slots :
          (ops[s].kind = "split" /\ ops[s].chained /\ ops[s].chain = <<>>)
              => Cardinality(WrittenBy(s)) <= 1
    /\ (SplitDone /\ last.op.chain = <<>>) =>
          LET op == last.op
              pre == PreLines(op)
              post == PostLines(op)
              li == TargetIndex(op)
          IN  /\ post = [pre EXCEPT ![li] = WithAudio(@, post[li].audioBlobId)]
              /\ StoredLines(op) = post
              /\ Created(op) = {post[li].audioBlobId}
              /\ Deleted(op) = {pre[li].audioBlobId}

\* a split of the last line L4, or of the only Narrator line in Character
\* mode, is done: the chain was empty and one asset was stored
SplitEmptyChainScenario ==
    /\ SplitDone
    /\ last.op.chain = <<>>
    /\ last.op.splitSample = 1
    /\ last.op.got[1].length = UploadSamples
    /\ Cardinality(Created(last.op)) = 1
    /\ dbAudioBlobs[PostLines(last.op)[TargetIndex(last.op)].audioBlobId]
          .data.length = 1

\* the project, chapter and line a call names exist in the state it read
TargetFound(op) ==
    LET project == FindProject(op.preProjects, op.projectId)
    IN  /\ project.id # ""
        /\ HasChapter(project, op.chapterId)
        /\ HasId(ChapterLines(project, op.chapterId), op.lineId)

\* a split that has to be rejected: the line has no asset, or the split
\* position is not after the start, or not before the end, of its asset
SplitNotAllowed(op) ==
    LET line == PreLines(op)[TargetIndex(op)]
    IN  /\ op.kind = "split"
        /\ TargetFound(op)
        /\ \/ line.audioBlobId = NoAudio
           \/ op.splitSample <= 0
           \/ /\ line.audioBlobId \in DOMAIN op.preBlobs
              /\ op.splitSample >= op.preBlobs[line.audioBlobId].data.length

\* C15: with calls issued one at a time, a splitAndShiftAudio on a line without
\* an asset, at a position not after the start of the asset, or at or beyond
\* its end, never reaches its database writes and ends with the store and the
\* tables as they were.
SplitRejected ==
    /\ \A s \in Slots :
          (OneAtATime /\ ops[s].pc # "idle" /\ SplitNotAllowed(ops[s]))
              => /\ ops[s].pc \in {"get", "decode"}
                 /\ ProjectsAndAssetsAsBefore(ops[s])
    /\ (Returned("split") /\ SplitNotAllowed(last.op))
          => /\ last.result \in {"noop", "error"}
             /\ ProjectsAndAssetsAsBefore(last.op)

\* a split at the very end of a line's asset was read from db.audioBlobs,
\* decoded and turned down
SplitRejectedAtEnd ==
    /\ Returned("split")
    /\ last.result \in {"noop", "error"}
    /\ Len(last.op.got) = 1
    /\ last.op.got[1].length = UploadSamples
    /\ last.op.splitSample = UploadSamples
    /\ SplitNotAllowed(last.op)
    /\ ProjectsAndAssetsAsBefore(last.op)

\* the recording of the line a call was issued on, as db.audioBlobs held it
TargetAsset(op) ==
    op.preBlobs[PreLines(op)[TargetIndex(op)].audioBlobId].data

\* a split of a line that has a recording of K samples, at a sample S with
\* 0 < S < K
SplitInside(op) ==
    /\ op.kind = "split"
    /\ TargetFound(op)
    /\ PreLines(op)[TargetIndex(op)].audioBlobId \in DOMAIN op.preBlobs
    /\ 0 < op.splitSample
    /\ op.splitSample < TargetAsset(op).length

\* C16: a split of a K-sample recording at a sample S with 0 < S < K that no
\* database failure interrupts cuts it into a head of exactly S samples and
\* a tail of exactly K - S samples, and on every channel the head followed
\* by the tail is the sample sequence of the recording.
SplitExactness ==
    (AllIdle /\ ~faulted /\ last.kind = "split" /\ SplitInside(last.op)) =>
        LET op == last.op
            original == decodeAudioData(TargetAsset(op))
            S == op.splitSample
        IN  /\ last.result = "ok"
            /\ Len(op.buffers) = 2
            /\ \A c \in 1..Len(original.channels) :
                  /\ Len(op.buffers[1].channels[c]) = S
                  /\ Len(op.buffers[2].channels[c]) = BufferLength(original) - S
                  /\ op.buffers[1].channels[c] \o op.buffers[2].channels[c]
                        = original.channels[c]
            /\ Len(op.buffers[1].channels) = Len(original.channels)
            /\ Len(op.buffers[2].channels) = Len(original.channels)

\* a mergeWithNextAndShift has just finished without an error
MergeDone == Returned("merge") /\ last.result = "ok"

\* the lines after the target line that have its characterId
SameRoleAfter(op) ==
    {j \in (TargetIndex(op) + 1)..Len(PreLines(op)) :
        PreLines(op)[j].characterId = ChainAnchor(op)}

\* the ids of a line array, in order
LineIds(lines) == [i \in 1..Len(lines) |-> lines[i].id]

\* C17: with calls issued one at a time, mergeWithNextAndShift merges the
\* target line with the first later line of the same characterId, in every mode
\* and across lines of the silent role; when there is no such line, or one of
\* the two has no asset, the call ends with an alert and nothing is changed.
MergeTakesNextSameRole ==
    /\ (Returned("merge") /\ TargetFound(last.op)) =>
          LET op == last.op
              pre == PreLines(op)
              i == TargetIndex(op)
              J == SameRoleAfter(op)
              refused == \/ J = {}
                         \/ pre[i].audioBlobId = NoAudio
                         \/ pre[SetMin(J)].audioBlobId = NoAudio
          IN  IF refused
              THEN last.result = "alert" /\ ProjectsAndAssetsAsBefore(op)
              ELSE last.result \in {"ok", "error"}
    /\ MergeDone =>
          LET op == last.op
              pre == PreLines(op)
              post == PostLines(op)
              i == TargetIndex(op)
              j == SetMin(SameRoleAfter(op))
          IN  /\ LineIds(post) = LineIds(SelectSeq(pre,
                                      LAMBDA l : l.id # pre[j].id))
              /\ post[i].text = pre[i].text \o <<"\n">> \o pre[j].text
              /\ {pre[i].audioBlobId, pre[j].audioBlobId} \cap DOMAIN op.preBlobs
                    \subseteq Deleted(op)

\* L1 was merged with L3, the next line of its character, across the silent
\* line L2, in Character mode
MergeAcrossSilentLine ==
    /\ MergeDone
    /\ last.op.lineId = "L1"
    /\ last.op.mode = "character"
    /\ FindCharacter(last.op.snap.characters,
                     PreLines(last.op)[2].characterId).name = SilentName
    /\ LineIds(PostLines(last.op)) = <<"L1", "L2", "L4">>

\* C18: with calls issued one at a time, after a successful
\* mergeWithNextAndShift the target line references one asset that is new, its
\* text is the two texts joined by a newline, the line it was merged with is
\* gone, the chapter has one line fewer, and the other lines keep their ids and
\* their order.
MergeRemovesNextLine ==
    MergeDone =>
        LET op == last.op
            pre == PreLines(op)
            post == PostLines(op)
            i == TargetIndex(op)
            j == SetMin(SameRoleAfter(op))
        IN  /\ StoredLines(op) = post
            /\ post[i].id = pre[i].id
            /\ Created(op) = {post[i].audioBlobId}
            /\ post[i].text = pre[i].text \o <<"\n">> \o pre[j].text
            /\ \A k \in 1..Len(post) : post[k].id # pre[j].id
            /\ Len(post) = Len(pre) - 1
            /\ LineIds(post) = [k \in 1..(Len(pre) - 1) |->
                                   IF k < j THEN pre[k].id ELSE pre[k + 1].id]

\* L1 was merged with the adjacent line L2 of its character: three lines are
\* left and L1 carries both texts
MergeOfAdjacentLines ==
    /\ MergeDone
    /\ LineIds(PreLines(last.op)) = <<"L1", "L2", "L3", "L4">>
    /\ last.op.lineId = "L1"
    /\ LineIds(PostLines(last.op)) = <<"L1", "L3", "L4">>
    /\ PostLines(last.op)[1].text = <<"L1", "\n", "L2">>
    /\ PostLines(last.op)[1].audioBlobId \in Created(last.op)

\* the line of the chapter of a call that now has the id the line at index
\* k had when the call was issued
PostLineOf(op, k) ==
    PostLines(op)[IndexOfId(PostLines(op), PreLines(op)[k].id)]

\* C19: after a successful mergeWithNextAndShift with a chain c0..cn computed
\* after the removed line, every ci with i < n holds the reference c(i+1)
\* held, cn holds none, and no asset the call deleted is referenced by a
\* line that is left in the chapter.
MergeRipples ==
    (MergeDone /\ Len(last.op.chain) >= 1) =>
        LET op == last.op
            c == op.chain
            n == Len(c)
            pre == PreLines(op)
        IN  /\ \A i \in 1..(n - 1) :
                  PostLineOf(op, c[i]).audioBlobId = pre[c[i + 1]].audioBlobId
            /\ PostLineOf(op, c[n]).audioBlobId = NoAudio
            /\ \A id \in Deleted(op) :
                  \A k \in 1..Len(PostLines(op)) :
                      PostLines(op)[k].audioBlobId # id

\* the two merge operations
MergeKinds == {"merge", "mergeUp"}

\* the indices of the two lines a merge call joins; <<>> when the call has
\* no second line
MergePair(op) ==
    LET i == TargetIndex(op)
    IN  IF op.kind = "mergeUp"
        THEN IF i > 1 /\ PreLines(op)[i - 1].characterId = ChainAnchor(op)
             THEN <<i - 1, i>> ELSE <<>>
        ELSE IF SameRoleAfter(op) # {}
             THEN <<i, SetMin(SameRoleAfter(op))>> ELSE <<>>

\* a merge of two lines whose recordings differ in sample rate or in
\* channel count
MergeMismatch(op) ==
    /\ op.kind \in MergeKinds
    /\ TargetFound(op)
    /\ MergePair(op) # <<>>
    /\ LET id1 == PreLines(op)[MergePair(op)[1]].audioBlobId
           id2 == PreLines(op)[MergePair(op)[2]].audioBlobId
       IN  /\ {id1, id2} \subseteq DOMAIN op.preBlobs
           /\ \/ op.preBlobs[id1].data.sampleRate
                    # op.preBlobs[id2].data.sampleRate
              \/ op.preBlobs[id1].data.numberOfChannels
                    # op.preBlobs[id2].data.numberOfChannels

MergedCompatible ==
    /\ \E kind \in MergeKinds : Returned(kind)
    /\ ~faulted
    /\ Len(last.op.got) = 2
    /\ ~formatsDiffer(decodeAudioData(last.op.got[1]),
                      decodeAudioData(last.op.got[2]))

MissedTarget ==
    /\ last.kind \in TimelineKinds \cup MergeKinds
    /\ ~TargetFound(last.op)

MayChange(op, c) == {TargetIndex(op)} \cup {c[k] : k \in 1..Len(c)}

\* line l as it is with the reference and the text of line m
SameButAudioAndText(l, m) ==
    [l EXCEPT !.audioBlobId = m.audioBlobId, !.text = m.text] = m

\* lines post are lines pre with other references at the indices of I only
FrameOfShift(pre, post, I) ==
    /\ Len(post) = Len(pre)
    /\ \A k \in 1..Len(pre) :
          /\ SameButAudioAndText(post[k], pre[k])
          /\ post[k].text = pre[k].text
          /\ k \notin I => post[k] = pre[k]

\* lines post are lines pre without line j, with the text of line j added to
\* line i and with other references at the indices of I only
FrameOfMerge(pre, post, i, j, I) ==
    /\ LineIds(post) = LineIds(SelectSeq(pre, LAMBDA l : l.id # pre[j].id))
    /\ \A k \in 1..Len(pre) :
          k # j =>
            LET l == post[IndexOfId(post, pre[k].id)]
            IN  /\ SameButAudioAndText(l, pre[k])
                /\ l.text = IF k = i
                            THEN pre[i].text \o <<"\n">> \o pre[j].text
                            ELSE pre[k].text
                /\ k \notin I => l.audioBlobId = pre[k].audioBlobId

\* the projects of a list other than the project of a call, without their
\* modification times
OtherProjects(projs, op) ==
    {[id |-> p.id, chapters |-> p.chapters] :
        p \in {q \in SeqToSet(projs) : q.id # op.projectId}}

\* a successful timeline operation has changed nothing but the references of
\* the line it was issued on and of the members of chain c, the lines a
\* merge removes and joins apart
FrameWithChain(c) ==
    \A kind \in TimelineKinds :
        (Returned(kind) /\ last.result = "ok") =>
            LET op == last.op
                pre == PreLines(op)
                I == MayChange(op, c)
            IN  /\ OtherChapters(projects, op)
                      = OtherChapters(op.preProjects, op)
                /\ OtherProjects(projects, op)
                      = OtherProjects(op.preProjects, op)
                /\ StoredLines(op) = PostLines(op)
                /\ IF kind = "merge"
                   THEN FrameOfMerge(pre, PostLines(op), TargetIndex(op),
                                     SetMin(SameRoleAfter(op)), I)
                   ELSE FrameOfShift(pre, PostLines(op), I)

\* the frame of the timeline operations with the chain the code computes
FrameOfComputedChain == FrameWithChain(last.op.chain)

\* C23: with calls issued one at a time, a split, shift down or shift up
\* that succeeded has changed nothing but the audioBlobId of the line it was
\* issued on and of the members of its chain as the chain is described: the
\* lines of the chapter keep their number, order, ids, texts and characters,
\* in the project list and in db.projects, and every other chapter and
\* project is as it was.  A merge that succeeded has, besides, removed the
\* line it merged with and nothing else, and changed the text of the line
\* it was issued on only.
TimelineFrame == FrameWithChain(DescribedChainOf(last.op))

\* the timeline operation described by last has failed: it named a missing
\* project, chapter or line, it ended with an alert (missing audio, chain
\* too short, nothing to merge with), or its try block threw (decode or
\* database failure)
TimelineCallFailed ==
    /\ last.kind \in TimelineKinds
    /\ \/ last.result \in {"alert", "error", "rejected"}
       \/ last.result = "noop" /\ ~TargetFound(last.op)

\* C24: a timeline operation that failed never settles for its caller the
\* way a successful one does.
CallerSeesFailure ==
    TimelineCallFailed => Settlement(last.result) # Settlement("ok")


\* the step in which the project written by the call of slot s reaches the
\* database: the commit of its transaction, or its write outside one
TakesEffect(s) ==
    /\ ops[s].pc = "steps"
    /\ ops'[s] # ops[s]
    /\ ops'[s].pc = "idle" => (last' # last /\ last'.result = "ok")
    /\ \/ Head(ops[s].todo).k = "commit"
       \/ Head(ops[s].todo).k = "putProject" /\ ~Head(ops[s].todo).tx

\* a call issued later has already committed and returned
OvertakenBy(s) ==
    /\ last.kind \in TimelineKinds \cup MergeKinds
    /\ last.result = "ok"
    /\ last.op.seq > ops[s].seq

\* C25: of two timeline operations issued one after the other without
\* waiting, the one issued first commits first: when the write of a call
\* takes effect, no call issued after it has committed already
CommitsInIssuanceOrder ==
    [][\A s \in Slots : TakesEffect(s) => ~OvertakenBy(s)]_vars


(***************************************************************************)
(* The exported file, read back from its bytes.                            *)
(***************************************************************************)
ReadUint32(bytes, offset) ==
    bytes[offset + 1] + 256 * bytes[offset + 2] + 65536 * bytes[offset + 3]
        + 16777216 * bytes[offset + 4]

\* the chunks a RIFF reader finds from offset up to end: each is eight bytes
\* of header and size bytes of body, padded to an even length; bytes that
\* make no chunk are reported with size -1
RECURSIVE ChunksFrom(_, _, _)
ChunksFrom(bytes, offset, end) ==
    IF offset = end THEN <<>>
    ELSE IF offset + 8 > end THEN <<[id |-> <<>>, size |-> -1, at |-> offset]>>
    ELSE LET size == ReadUint32(bytes, offset + 4)
         IN  <<[id |-> SubSeq(bytes, offset + 1, offset + 4), size |-> size,
                at |-> offset]>>
             \o ChunksFrom(bytes, offset + 8 + size + (size % 2), end)

\* the call returned a Blob
Exported == exp.pc = "done" /\ exp.result.kind = "blob"

ExportedBytes == exp.result.bytes

NumberOfPairs == Len(exp.linesWithAudio)

\* the resampled samples of input pair i
Segment(i) ==
    processAudioBuffer(decodeAudioDataAt(exp.linesWithAudio[i].audioBlob,
                                         exp.sampleRate))

RECURSIVE SamplesBefore(_)
SamplesBefore(i) ==
    IF i <= 1 THEN 0 ELSE SamplesBefore(i - 1) + Len(Segment(i - 1))

DataSize == ReadUint32(ExportedBytes, 40)

CueAt == 44 + DataSize

\* the sample offset of cue record i (from 1): the last field of the record
CueSampleOffset(i) == ReadUint32(ExportedBytes, CueAt + 12 + (i - 1) * 24 + 20)

\* C26: the cue chunk of the exported file declares and holds exactly one
\* record per input pair, the sample offsets of the records ascend, and the
\* data chunk holds as many samples as the resampled recordings have
\* together
CueCountAndTotal ==
    Exported =>
        /\ SubSeq(ExportedBytes, CueAt + 1, CueAt + 4) = CharCodes("cue ")
        /\ ReadUint32(ExportedBytes, CueAt + 8) = NumberOfPairs
        /\ ReadUint32(ExportedBytes, CueAt + 4) = 4 + 24 * NumberOfPairs
        /\ \A i, j \in 1..NumberOfPairs :
              i < j => CueSampleOffset(i) <= CueSampleOffset(j)
        /\ DataSize \div (TARGET_BIT_DEPTH \div 8)
              = SamplesBefore(NumberOfPairs + 1)

\* three recordings were exported
ExportedThree == Exported /\ NumberOfPairs = 3

\* C27: the cue point of a pair is the number of samples of the pairs before
\* it, the first being 0, and the data chunk holds two bytes per sample;
\* recordings of 44100 and 88200 samples give cue points 0 and 44100 and
\* 264600 bytes of data
CueIsSamplesBefore ==
    /\ Exported =>
          /\ \A i \in 1..NumberOfPairs :
                /\ CueSampleOffset(i) = SamplesBefore(i)
                /\ ReadUint32(ExportedBytes, CueAt + 12 + (i - 1) * 24 + 4)
                     = SamplesBefore(i)
          /\ DataSize = 2 * SamplesBefore(NumberOfPairs + 1)
    /\ LET acc == pushCue(pushCue(NoCues, 44100), 88200)
       IN  /\ acc.cuePoints = <<0, 44100>>
           /\ acc.totalSamples * (TARGET_BIT_DEPTH \div 8) = 264600

\* two recordings of different lengths were exported
ExportedTwoLengths ==
    /\ Exported
    /\ NumberOfPairs = 2
    /\ Len(Segment(1)) # Len(Segment(2))

\* the bytes of the data chunk that belong to input pair i
DataSegment(i) ==
    SubSeq(ExportedBytes, 44 + 2 * CueSampleOffset(i) + 1,
           44 + 2 * (IF i = NumberOfPairs THEN DataSize \div 2
                     ELSE CueSampleOffset(i + 1)))

\* C28: in whatever order the decodes settle, segment i of the exported
\* samples is the audio of input pair i and cue i marks its start
OutputFollowsInputOrder ==
    Exported =>
        \A i \in 1..NumberOfPairs :
            /\ CueSampleOffset(i) = SamplesBefore(i)
            /\ DataSegment(i)
                 = Int16Bytes([k \in 1..Len(Segment(i)) |->
                                  toPcm16(Segment(i)[k])])

\* a later pair was decoded before an earlier one and the two recordings
\* differ
ExportedOutOfOrder ==
    /\ Exported
    /\ exp.outOfOrder
    /\ NumberOfPairs = 2
    /\ Segment(1) # Segment(2)

\* some input pair is not audio
SomeUndecodable ==
    \E i \in 1..NumberOfPairs : exp.linesWithAudio[i].audioBlob = Undecodable

\* the error names a pair: its index or its line
IdentifiesPair(error) ==
    \E field \in {"index", "line", "lineId", "pair"} : field \in DOMAIN error

\* the export fails as a whole: no bytes are returned
ExportFailsAsAWhole ==
    (exp.pc = "done" /\ SomeUndecodable) =>
        /\ exp.result.kind = "error"
        /\ exp.result.bytes = <<>>
        /\ exp.closed

\* C29: when an input recording cannot be decoded the export fails as a
\* whole, returns no bytes, and its error identifies the pair that failed
ExportFailureIdentifiesPair ==
    (exp.pc = "done" /\ SomeUndecodable) =>
        /\ exp.result.kind = "error"
        /\ exp.result.bytes = <<>>
        /\ IdentifiesPair(exp.result.error)

\* the sub-chunks of the LIST chunk found at offset
ListSubChunks(offset) ==
    ChunksFrom(ExportedBytes, offset + 12,
               offset + 8 + ReadUint32(ExportedBytes, offset + 4))

\* C30: for every list of decodable recordings a file is returned whose
\* RIFF size field is the length of the file minus 8, whose chunks are fmt,
\* data, cue and LIST in this order, each with the declared size of the
\* body that was written, and the chunks fill the file exactly
RiffLayout ==
    (exp.pc = "done" /\ ~SomeUndecodable) =>
        /\ exp.result.kind = "blob"
        /\ SubSeq(ExportedBytes, 1, 4) = CharCodes("RIFF")
        /\ ReadUint32(ExportedBytes, 4) = Len(ExportedBytes) - 8
        /\ SubSeq(ExportedBytes, 9, 12) = CharCodes("WAVE")
        /\ LET chunks == ChunksFrom(ExportedBytes, 12, Len(ExportedBytes))
           IN  /\ [c \in 1..Len(chunks) |-> chunks[c].id]
                    = <<CharCodes("fmt "), CharCodes("data"),
                        CharCodes("cue "), CharCodes("LIST")>>
               /\ chunks[1].size = 16
               /\ chunks[2].size = 2 * SamplesBefore(NumberOfPairs + 1)
               /\ chunks[3].size = 4 + 24 * NumberOfPairs
               /\ SubSeq(ExportedBytes, chunks[4].at + 9, chunks[4].at + 12)
                    = CharCodes("adtl")
               /\ LET labels == ListSubChunks(chunks[4].at)
                  IN  /\ Len(labels) = NumberOfPairs
                      /\ \A l \in 1..Len(labels) :
                            labels[l].id = CharCodes("labl")

\* ten recordings were exported: the label of the tenth is padded
ExportedTen == Exported /\ NumberOfPairs = 10


\* the number of decimal digits of n
RECURSIVE Digits(_)
Digits(n) == IF n < 10 THEN 1 ELSE 1 + Digits(n \div 10)

ListAt == CueAt + 8 + ReadUint32(ExportedBytes, CueAt + 4)

\* the offset in the file of the labl sub-chunk of cue i (from 1): the
\* sub-chunks before it take 8 + 4 + digits + 1 bytes each, rounded up to even
RECURSIVE LabelAt(_)
LabelAt(i) ==
    IF i <= 1 THEN ListAt + 12
    ELSE LET unpadded == 8 + 4 + Digits(i - 1) + 1
         IN  LabelAt(i - 1) + unpadded + (unpadded % 2)

\* C31: the labl sub-chunk of cue i (from 1) declares the size 4 + the
\* number of decimal digits of i + 1 and occupies 8 + that size bytes
\* rounded up to an even number, the padding byte being zero, and the LIST
\* chunk declares 4 + the sum of the padded sizes of the sub-chunks
LabelSizes ==
    Exported =>
        /\ LabelAt(NumberOfPairs + 1) = Len(ExportedBytes)
        /\ \A i \in 1..NumberOfPairs :
              LET size == 4 + Digits(i) + 1
              IN  /\ SubSeq(ExportedBytes, LabelAt(i) + 1, LabelAt(i) + 4)
                       = CharCodes("labl")
                  /\ ReadUint32(ExportedBytes, LabelAt(i) + 4) = size
                  /\ (size % 2 = 1) =>
                        ExportedBytes[LabelAt(i) + 8 + size + 1] = 0
        /\ ReadUint32(ExportedBytes, ListAt + 4)
             = LabelAt(NumberOfPairs + 1) - (ListAt + 8)

\* an export whose last label has two digits and a padding byte
ExportedPaddedLabel ==
    /\ Exported
    /\ NumberOfPairs >= 10
    /\ ExportedBytes[Len(ExportedBytes)] = 0
    /\ ReadUint32(ExportedBytes, LabelAt(NumberOfPairs) + 4) = 7


\* the char codes of the decimal digits of n, highest first
DecimalText(n) ==
    [d \in 1..Digits(n) |-> 48 + ((n \div (10 ^ (Digits(n) - d))) % 10)]

\* the offset in the file of cue record i (from 1)
CueRecordAt(i) == CueAt + 12 + (i - 1) * 24

\* C32: the cue record at position i (from 0) holds the id i + 1, the sample
\* position of the pair, 'data', two zero fields and the position again;
\* and there is one labl sub-chunk per cue record, in the same order, with
\* the same id and the decimal text of i + 1
CueRecordsAndLabels ==
    Exported =>
        /\ LabelAt(NumberOfPairs + 1) = Len(ExportedBytes)
        /\ ReadUint32(ExportedBytes, CueAt + 8) = NumberOfPairs
        /\ \A i \in 1..NumberOfPairs :
              /\ ReadUint32(ExportedBytes, CueRecordAt(i)) = i
              /\ ReadUint32(ExportedBytes, CueRecordAt(i) + 4)
                   = SamplesBefore(i)
              /\ SubSeq(ExportedBytes, CueRecordAt(i) + 9, CueRecordAt(i) + 12)
                   = CharCodes("data")
              /\ ReadUint32(ExportedBytes, CueRecordAt(i) + 12) = 0
              /\ ReadUint32(ExportedBytes, CueRecordAt(i) + 16) = 0
              /\ ReadUint32(ExportedBytes, CueRecordAt(i) + 20)
                   = SamplesBefore(i)
              /\ SubSeq(ExportedBytes, LabelAt(i) + 1, LabelAt(i) + 4)
                   = CharCodes("labl")
              /\ ReadUint32(ExportedBytes, LabelAt(i) + 8) = i
              /\ SubSeq(ExportedBytes, LabelAt(i) + 13,
                        LabelAt(i) + 12 + Digits(i)) = DecimalText(i)
              /\ ExportedBytes[LabelAt(i) + 12 + Digits(i) + 1] = 0

\* the second cue record and the second label of an export carry the id 2
ExportedSecondCue ==
    /\ Exported
    /\ NumberOfPairs >= 2
    /\ ReadUint32(ExportedBytes, CueRecordAt(2)) = 2
    /\ ReadUint32(ExportedBytes, LabelAt(2) + 8) = 2
    /\ ReadUint32(ExportedBytes, CueRecordAt(2) + 20) > 0


\* the cue points of a run that handles the pairs one after the other
RECURSIVE ReferenceCues(_)
ReferenceCues(i) ==
    IF i = 0 THEN NoCues
    ELSE pushCue(ReferenceCues(i - 1), Len(Segment(i)))

\* the bytes such a run returns for the list and the decoder of this call
ReferenceBytes ==
    assemble([i \in 1..NumberOfPairs |-> Segment(i)],
             ReferenceCues(NumberOfPairs).cuePoints).bytes

\* C33: the export is deterministic: whatever the order the decodes settle
\* in and whatever the state of the store, a call returns the bytes that
\* the ordered list of pairs and the results of the decoder determine, and
\* it fails exactly when a pair cannot be decoded
ExportIsDeterministic ==
    exp.pc = "done" =>
        IF SomeUndecodable
        THEN exp.result = [kind |-> "error", bytes |-> <<>>,
                           error |-> EncodingError]
        ELSE exp.result = [kind |-> "blob", bytes |-> ReferenceBytes,
                           error |-> <<>>]

\* an export of three recordings on a 48000 Hz context in which a decode
\* overtook another, in the older revision of the store
ExportedAfterOvertaking ==
    /\ Exported
    /\ exp.outOfOrder
    /\ NumberOfPairs = 3
    /\ exp.sampleRate = 48000
    /\ slice = "part_002"


\* the chapters of the projects: (project id, chapter id)
AllChapters == {<<"p1", "ch1">>, <<"p1", "ch2">>, <<"p2", "ch3">>}

\* the lines of a chapter in a list of projects
LinesOf(projs, pc) == ChapterLines(FindProject(projs, pc[1]), pc[2])

\* a step of the call of slot s that is neither its start nor its failure
Continues(s) ==
    /\ ops[s].pc # "idle"
    /\ ops'[s] # ops[s]
    /\ ops'[s].pc = "idle" => (last' # last /\ last'.result = "ok")

\* the step leaves the chapters the call is not about as they are, in the
\* store and in the database
KeepsOtherChapters(s) ==
    \A pc \in AllChapters \ {<<ops[s].projectId, ops[s].chapterId>>} :
        /\ LinesOf(projects', pc) = LinesOf(projects, pc)
        /\ LinesOf(TableRows(dbProjects'), pc)
             = LinesOf(TableRows(dbProjects), pc)

\* C34: no update is lost between chapters: a timeline operation that runs
\* while another one on a different chapter is in flight or has committed
\* never puts back the lines of that other chapter, in the store or in
\* the database
NoLostUpdateBetweenChapters ==
    [][\A s \in Slots : Continues(s) => KeepsOtherChapters(s)]_vars


\* the lines of a chapter in a list of projects, none if it was deleted
LinesIn(projs, pc) ==
    IF HasChapter(FindProject(projs, pc[1]), pc[2]) THEN LinesOf(projs, pc)
    ELSE <<>>

\* the lines of a list of projects that reference the asset id:
\* (project id, chapter id, position in the chapter)
Holders(projs, id) ==
    UNION {{<<pc[1], pc[2], i>> :
               i \in {j \in DOMAIN LinesIn(projs, pc) :
                         LinesIn(projs, pc)[j].audioBlobId = id}} :
              pc \in AllChapters}

\* C35: single ownership: in every state reached through timeline
\* operations and editor line edits (text split of a line, adjacent-line
\* merge, character reassignment), no asset id is referenced by two
\* different lines, in the store or in the database
SingleOwnership ==
    \A id \in ReferencedIn(projects) \cup ReferencedIn(TableRows(dbProjects)) :
        /\ Cardinality(Holders(projects, id)) <= 1
        /\ Cardinality(Holders(TableRows(dbProjects), id)) <= 1


\* C36: after assignAudioToLine completes, the asset store contains no
\* asset that no line references: the asset the line referenced before is
\* removed when it is replaced, and no asset is left in the store when the
\* target project, chapter or line does not exist
NoOrphanAfterAssign ==
    (/\ AllIdle
     /\ last.kind = "assign"
     /\ last.result = "ok"
     /\ DOMAIN last.op.preBlobs \subseteq ReferencedIn(last.op.preProjects))
        => /\ DOMAIN dbAudioBlobs \subseteq ReferencedIn(projects)
           /\ DOMAIN dbAudioBlobs \subseteq PersistedReferences


\* the assets of the store that no line references
Unreferenced(projs, blobs) == DOMAIN blobs \ ReferencedIn(projs)

\* C37: when an editor operation removes a line that holds an audio asset
\* (adjacent same-character merge, conversion to narrator that merges the
\* line into a neighbour, chapter deletion), that asset is deleted from the
\* asset store: an editor edit leaves no asset unreferenced that was
\* referenced before it
EditorRemovalDeletesAsset ==
    [][nEdits' = nEdits + 1 =>
          /\ Unreferenced(projects', dbAudioBlobs')
                \subseteq Unreferenced(projects, dbAudioBlobs)
          /\ Unreferenced(TableRows(dbProjects'), dbAudioBlobs')
                \subseteq Unreferenced(TableRows(dbProjects), dbAudioBlobs)]_vars


\* the step is the write of new assets by the call of slot s
WritesNewAssets(s) ==
    /\ ops[s].pc = "steps"
    /\ ops[s].todo # <<>>
    /\ Head(ops[s].todo).k = "bulkPut"
    /\ ops'[s].issued = Append(ops[s].issued, "bulkPut")

\* the asset ids the call of slot s is about to write
NewAssetIds(s) ==
    {Head(ops[s].todo).blobs[i].id : i \in DOMAIN Head(ops[s].todo).blobs}

\* C38: fresh asset ids: every asset id created by split, merge or assign
\* differs from every id already in the asset store, including ids created
\* by another call that reads the clock in the same millisecond, so writing
\* a new asset never overwrites an asset that some line references
FreshAssetIds ==
    [][\A s \in Slots :
          WritesNewAssets(s) => NewAssetIds(s) \cap DOMAIN dbAudioBlobs = {}]_vars


\* the asset each line of a list references
AudioIdsOf(lines) == [i \in DOMAIN lines |-> lines[i].audioBlobId]

\* C39: when the chain computed for shiftAudioDown is empty (the start line
\* has the silent role and no line follows it in the chain, CV mode with a
\* start character without cvName, Character mode with a start line without
\* a known character), the call changes no line reference and deletes no
\* asset
EmptyChainShiftDownIsNoOp ==
    (Returned("shiftDown") /\ last.op.chained /\ Len(last.op.chain) = 0) =>
        LET op == last.op
        IN  /\ DOMAIN dbAudioBlobs = DOMAIN op.preBlobs
            /\ AudioIdsOf(PostLines(op)) = AudioIdsOf(PreLines(op))
            /\ AudioIdsOf(StoredLines(op)) = AudioIdsOf(PreLines(op))
            /\ OtherChapters(projects, op) = OtherChapters(op.preProjects, op)


\* the chapter a clearAudioFromChapter call names existed when it was issued
ClearFound(op) ==
    /\ HasId(op.preProjects, op.projectId)
    /\ HasChapter(FindProject(op.preProjects, op.projectId), op.chapterId)

\* the assets the lines of a list reference
AudioOf(lines) == {lines[i].audioBlobId : i \in DOMAIN lines} \ {NoAudio}

\* C40: after clearAudioFromChapter no line of that chapter references an
\* asset and exactly the assets those lines referenced have been deleted;
\* the references and assets of every other chapter are untouched, and a
\* chapter in which no line has audio is left entirely unchanged, without
\* any write
ClearAudioFromChapterClears ==
    (Returned("clear") /\ ClearFound(last.op)) =>
        LET op == last.op
            pre == PreLines(op)
        IN  /\ AudioOf(pre) = {} =>
                  /\ last.result = "noop"
                  /\ op.issued = <<>>
                  /\ NothingChanged(op)
            /\ last.result = "ok" =>
                  /\ AudioOf(pre) # {}
                  /\ AudioOf(PostLines(op)) = {}
                  /\ AudioOf(StoredLines(op)) = {}
                  /\ PostLines(op) = [i \in DOMAIN pre |->
                                        [pre[i] EXCEPT !.audioBlobId = NoAudio]]
                  /\ StoredLines(op) = PostLines(op)
                  /\ DOMAIN dbAudioBlobs = DOMAIN op.preBlobs \ AudioOf(pre)
                  /\ \A id \in DOMAIN dbAudioBlobs :
                        dbAudioBlobs[id] = op.preBlobs[id]
                  /\ OtherChapters(projects, op)
                        = OtherChapters(op.preProjects, op)
                  /\ OtherChapters(TableRows(dbProjects), op)
                        = OtherChapters(TableRows(op.preDbProjects), op)

\* a chapter with two recordings has been cleared, and a call on a
\* chapter without recordings has returned
ClearedTwoRecordings ==
    /\ Returned("clear")
    /\ last.result = "ok"
    /\ Cardinality(AudioOf(PreLines(last.op))) >= 2
    /\ AudioOf(PostLines(last.op)) = {}

ClearedUnrecordedChapter ==
    /\ Returned("clear")
    /\ ClearFound(last.op)
    /\ AudioOf(PreLines(last.op)) = {}

====
